---- MODULE Spec2Model ----
(***************************************************************************)
(* Statistics ingestion / aggregation pipeline of the personal-account     *)
(* service: Raw Store (integration.raw_attempts, integration.raw_user_     *)
(* stats), Stats Processor, canonical table tests.test_attempt_b, durable  *)
(* aggregate stats.student_stats_aggregated, Redis cache and the           *)
(* certificate scan.                                                       *)
(*                                                                         *)
(* Representation:                                                         *)
(*  - a table keyed by a unique column is a function whose DOMAIN is the   *)
(*    set of keys present;                                                 *)
(*  - integration.raw_attempts / raw_user_stats are sequences kept in      *)
(*    received_at order (oldest first), which is the order of the          *)
(*    SELECT_UNPROCESSED_* queries;                                        *)
(*  - SQL NULL / Python None is Null for strings and NullInt for numbers;  *)
(*    the nullable boolean column "passed" is "true" / "false" / Null;     *)
(*  - avg_score (a float) is kept in 1/AvgScale units, truncated.          *)
(***************************************************************************)
EXTENDS Integers, Sequences, FiniteSets, TLC

VARIABLES
    rawAttempts,    \* integration.raw_attempts, oldest received first
    rawUserStats,   \* integration.raw_user_stats, oldest received first
    business,       \* tests.test_attempt_b, keyed by attempt id
    aggregated,     \* stats.student_stats_aggregated, keyed by student_id
    cache,          \* Redis keys user_stats:{student_id}
    cacheFull,      \* Redis keys user_full_data:{student_id}
    certificates,   \* personal_account.certificate_b, keyed by certificate id
    contractManager,\* ContractManager: settings and compiled-validator cache
    schemaLoader,   \* SchemaLoader: schema files on disk and schema cache
    scheduler,      \* StatsWorker: the AsyncIOScheduler and its jobs
    scans,          \* certificate scans in flight, one per running request
    recomputes,     \* recomputations of an aggregate in flight
    last            \* the operation that ran last, its inputs and its outcome

vars == <<rawAttempts, rawUserStats, business, aggregated, cache, cacheFull,
          certificates, contractManager, schemaLoader, scheduler, scans,
          recomputes, last>>

\* the tables and the cache, and the components beside the pipeline
dataVars == <<rawAttempts, rawUserStats, business, aggregated, cache,
              cacheFull, certificates>>
componentVars == <<contractManager, schemaLoader, scheduler, scans,
                   recomputes>>

----------------------------------------------------------------------------
(* Bounds and domains *)

Null == "null"
NullInt == -1

\* students present in personal_account.student_s
Students == {"s1", "s2"}
\* a student id the external service may send that is not in student_s
UnknownStudent == "sx"
\* attempts known to the external testing service; the student, the test and
\* the date of an attempt do not change between two fetches of it
AttemptIds == {"a1", "a2", "a3", "a4"}
AttemptOwner == [a \in AttemptIds |->
                    IF a \in {"a1", "a2"} THEN "s1"
                    ELSE IF a = "a3" THEN "s2" ELSE UnknownStudent]
AttemptTest == [a \in AttemptIds |-> IF a = "a2" THEN "t2" ELSE "t1"]
AttemptDate == [a \in AttemptIds |-> IF a = "a1" THEN 1 ELSE 2]

\* the attempts each specification fetches
PipelineAttempts == {"a1"}
StoreAttempts == {"a1", "a2"}
ProcAttempts == {"a1", "a2"}
CertAttempts == {"a1", "a2"}
ClientAttempts == {"a1", "a2"}
QueueAttempts == {"a1", "a2", "a3"}
UnknownAttempts == {"a1", "a4"}

BatchSize == 2
MaxRawUserStats == 2
MaxLimit == 2
MaxRevision == 1
MaxFetchedRows == 6
MaxCertificates == 2
MaxProcessingAttempts == 1
MaxArithRows == 3
AvgScale == 100

\* what the testing service may answer for an attempt at the time of a fetch:
\* the fields that change, and whether the document conforms to
\* attempt_detail v1
PassedShape == [point |-> 90, passed |-> "true", completed |-> TRUE,
                valid |-> TRUE, has_student |-> TRUE]
FailedShape == [point |-> 40, passed |-> "false", completed |-> TRUE,
                valid |-> TRUE, has_student |-> TRUE]
InvalidShape == [point |-> 70, passed |-> "true", completed |-> TRUE,
                 valid |-> FALSE, has_student |-> TRUE]
\* a document that fails validation because it carries no student_id
MalformedShape == [point |-> 70, passed |-> "true", completed |-> TRUE,
                   valid |-> FALSE, has_student |-> FALSE]
PayloadShapes == {PassedShape, FailedShape, InvalidShape}
ClientShapes == PayloadShapes \cup {MalformedShape}

AttemptPayload(a, sh) ==
    [attempt_id |-> a,
     student_id |-> IF sh.has_student THEN AttemptOwner[a] ELSE Null,
     test_id |-> AttemptTest[a],
     date_of_attempt |-> AttemptDate[a], point |-> sh.point,
     passed |-> sh.passed, completed |-> sh.completed,
     certificate_id |-> Null, valid |-> sh.valid]

\* failures of the storage layer injected into one record of a batch
RecordFaults == {"none", "upsert_attempt", "mark_first", "mark_both"}
\* failures injected into the recomputation of one affected student
RecalcFaults == {"none", "calculate", "save_to_redis"}

NoResult == [none |-> TRUE]

----------------------------------------------------------------------------
(* Sequence and set helpers *)

Range(f) == {f[x] : x \in DOMAIN f}

Take(s, n) == IF Len(s) <= n THEN s ELSE SubSeq(s, 1, n)

RECURSIVE RemoveKey(_, _)
RemoveKey(s, k) ==
    IF s = <<>> THEN <<>>
    ELSE IF Head(s).id = k THEN RemoveKey(Tail(s), k)
    ELSE <<Head(s)>> \o RemoveKey(Tail(s), k)

Restrict(f, S) == [x \in S |-> f[x]]

----------------------------------------------------------------------------
(* Schema Validator: SchemaLoader and ContractManager *)

CacheSize == 2

ValidateContracts == {"user_stats", "attempt_detail"}
VersionRequests == {"latest", "v1", "v2"}

\* file names as strings of character codes: v = 118, . = 46, digits 48..57;
\* the extension json is the same for all and stands as one code after the dot
Ext == <<46, 106>>
FileV1 == <<118, 49>> \o Ext
FileV2 == <<118, 50>> \o Ext
FileV10 == <<118, 49, 48>> \o Ext
SchemaFileNames == {FileV1, FileV2, FileV10}

\* f"{version}.json"
VersionFile(version) == IF version = "v1" THEN FileV1 ELSE FileV2

\* f"{contract_name}:{version}"
CacheKey(contract, version) == <<contract, version>>

\* the order of sorted() on the paths of one directory: first difference
\* decides, a proper prefix comes first
RECURSIVE LexLess(_, _)
LexLess(a, b) ==
    IF b = <<>> THEN FALSE
    ELSE IF a = <<>> THEN TRUE
    ELSE IF Head(a) # Head(b) THEN Head(a) < Head(b)
    ELSE LexLess(Tail(a), Tail(b))

\* variant: the first file of the sorted list is taken
FirstSorted(names) ==
    CHOOSE n \in names : \A m \in names \ {n} : LexLess(n, m)

\* sorted(contract_dir.glob("*.json"))[-1]
LastSorted(names) ==
    CHOOSE n \in names : \A m \in names \ {n} : LexLess(m, n)

\* the schema parsed from a file: which file it is, whether its text is JSON,
\* whether the document has a "type" property, whether fastjsonschema can
\* compile it, and which revision of the file's text it is
SchemaOf(contract, name, defect) ==
    [contract |-> contract, file |-> name,
     parses |-> defect # "malformed",
     has_type |-> defect \notin {"malformed", "untyped"},
     compiles |-> defect # "uncompilable",
     revision |-> 0]

SchemaDefects == {"none", "malformed", "untyped", "uncompilable"}

\* a schemas directory: contract directory -> file name -> document
WellFormedDir(contract, names) ==
    [n \in names |-> SchemaOf(contract, n, "none")]

DefaultSchemaFiles ==
    [c \in ValidateContracts |-> WellFormedDir(c, {FileV1})]

\* validators_cache holds the keys of the cached validators in insertion
\* order, compiled_from the schema each of them was compiled from
IdleManager ==
    [cache_size |-> CacheSize, enable_caching |-> TRUE, validators_cache |-> <<>>,
     compiled_from |-> <<>>]

IdleLoader == [files |-> DefaultSchemaFiles, schemas_cache |-> <<>>]

\* SchemaLoader._find_schema_file: the name found, or the failure
FindSchemaFile(files, contract, version) ==
    IF contract \notin DOMAIN files
    THEN [found |-> FALSE, name |-> <<>>]
    ELSE IF version = "latest"
    THEN (IF DOMAIN files[contract] = {} THEN [found |-> FALSE, name |-> <<>>]
          ELSE [found |-> TRUE, name |-> LastSorted(DOMAIN files[contract])])
    ELSE IF VersionFile(version) \in DOMAIN files[contract]
    THEN [found |-> TRUE, name |-> VersionFile(version)]
    ELSE [found |-> FALSE, name |-> <<>>]

\* SchemaLoader.load: the loader after the call, and the schema or the failure
LoadSchema(loader, contract, version) ==
    LET key == CacheKey(contract, version)
        path == FindSchemaFile(loader.files, contract, version)
    IN IF key \in DOMAIN loader.schemas_cache
       THEN [loader |-> loader, ok |-> TRUE, error |-> "none",
             schema |-> loader.schemas_cache[key]]
       ELSE IF ~path.found
       THEN [loader |-> loader, ok |-> FALSE, error |-> "FileNotFoundError",
             schema |-> SchemaOf(contract, <<>>, "untyped")]
       ELSE LET schema == loader.files[contract][path.name]
            IN IF ~schema.parses \/ ~schema.has_type
               THEN [loader |-> loader, ok |-> FALSE, error |-> "ValueError",
                     schema |-> schema]
               ELSE [loader |-> [loader EXCEPT !.schemas_cache =
                                     @ @@ (key :> schema)],
                     ok |-> TRUE, error |-> "none", schema |-> schema]

\* variant: the last except clause of validate is missing
SurfaceValidationOnly(inner) ==
    IF inner \in {"JsonSchemaValueException", "JsonSchemaDefinitionException"}
    THEN "ContractValidationError"
    ELSE inner

\* the except clauses of ContractManager.validate: what the caller sees for
\* the exception raised inside the try block
Surface(inner) ==
    IF inner = "none" THEN "none" ELSE "ContractValidationError"

\* variant: the entry dropped is the one inserted last
EvictNewest(keys) == SubSeq(keys, 1, Len(keys) - 1)

\* del self._validators_cache[next(iter(self._validators_cache))]
EvictOldest(keys) == Tail(keys)

\* variant: the compiled validator is returned and not put in the cache
GetValidatorUncached(manager, key) == manager

\* ContractManager._get_validator on the cache, a dict in insertion order
GetValidator(manager, key) ==
    IF ~manager.enable_caching THEN manager
    ELSE IF \E i \in DOMAIN manager.validators_cache :
               manager.validators_cache[i] = key
    THEN manager
    ELSE LET added == Append(manager.validators_cache, key)
         IN [manager EXCEPT !.validators_cache =
                IF Len(added) > manager.cache_size THEN EvictOldest(added)
                ELSE added]

----------------------------------------------------------------------------
(* StatsWorker: the scheduler and its three jobs *)

Jobs == {"fetch_testing", "process_raws", "generate_certificates"}

\* how the body of a job can end: fetch_from_testing and process_raws let an
\* exception of their calls out; _generate_certificates has its own
\* try / except around the scan
BodyOutcomes(job) ==
    IF job = "generate_certificates" THEN {"returns", "caught_inside"}
    ELSE {"returns", "raises"}

\* variant: the job is scheduled without the wrapper
JobWrapperBare(bodyOutcome) ==
    IF bodyOutcome = "raises" THEN "raised" ELSE "returned"

\* StatsWorker._wrap: job_wrapper awaits the body and logs what it raises
JobWrapper(bodyOutcome) ==
    IF bodyOutcome = "raises" THEN "logged" ELSE "returned"

\* the scheduler before start(): no job, not running
IdleScheduler ==
    [running |-> FALSE, jobs |-> {},
     runs |-> [j \in Jobs |-> 0],
     outcome |-> [j \in Jobs |-> "none"]]

----------------------------------------------------------------------------
(* Raw Store: integration.raw_attempts and integration.raw_user_stats *)

\* received_at is sent as NULL by the repository and filled in by the table;
\* a row that has just been written is the newest one
StampReceived(rows, row) == Append(rows, row)

HasRaw(rows, ext) == \E i \in DOMAIN rows : rows[i].id = ext

RawOf(rows, ext) == rows[CHOOSE i \in DOMAIN rows : rows[i].id = ext]

\* variant: ON CONFLICT takes the counter of the new row as well
InsertRawAttemptResetCounter(rows, ext, sid, tid, payload) ==
    LET excluded == [id |-> ext, student_id |-> sid, test_id |-> tid,
                     payload |-> payload, processed |-> FALSE,
                     processing_attempts |-> 0, error_message |-> Null]
    IN IF HasRaw(rows, ext)
       THEN LET old == RawOf(rows, ext)
            IN StampReceived(RemoveKey(rows, ext),
                   [old EXCEPT !.payload = excluded.payload,
                               !.processed = excluded.processed,
                               !.processing_attempts = excluded.processing_attempts])
       ELSE StampReceived(rows, excluded)

\* INSERT_RAW_ATTEMPT with the parameters of insert_raw_attempt:
\* processed = False, processing_attempts = 0, error_message = None
InsertRawAttempt(rows, ext, sid, tid, payload) ==
    LET excluded == [id |-> ext, student_id |-> sid, test_id |-> tid,
                     payload |-> payload, processed |-> FALSE,
                     processing_attempts |-> 0, error_message |-> Null]
    IN IF HasRaw(rows, ext)
       THEN LET old == RawOf(rows, ext)
            IN StampReceived(RemoveKey(rows, ext),
                   [old EXCEPT !.payload = excluded.payload,
                               !.processed = excluded.processed,
                               !.processing_attempts = old.processing_attempts])
       ELSE StampReceived(rows, excluded)

\* INSERT_RAW_USER_STATS: no natural key, every call adds a row
InsertRawUserStats(rows, sid, payload) ==
    StampReceived(rows, [id |-> Len(rows) + 1, student_id |-> sid,
                         payload |-> payload, processed |-> FALSE,
                         error_message |-> Null])

\* SELECT_UNPROCESSED_ATTEMPTS / SELECT_UNPROCESSED_USER_STATS
Unprocessed(r) == ~r.processed

\* variant: ORDER BY received_at DESC
GetUnprocessedAttemptsNewestFirst(rows, limit) ==
    LET u == SelectSeq(rows, Unprocessed)
        n == IF limit < Len(u) THEN limit ELSE Len(u)
    IN [i \in 1..n |-> u[Len(u) + 1 - i]]

GetUnprocessedAttempts(rows, limit) == Take(SelectSeq(rows, Unprocessed), limit)

GetUnprocessedUserStats(rows, limit) == Take(SelectSeq(rows, Unprocessed), limit)

\* MARK_RAW_ATTEMPT_PROCESSED as run by StatsRepository.mark_attempt_processed:
\* the error argument is accepted and not passed to the statement
MarkAttemptProcessed(rows, rawId, error) ==
    [i \in DOMAIN rows |->
        IF rows[i].id = rawId THEN [rows[i] EXCEPT !.processed = TRUE]
        ELSE rows[i]]

\* MARK_RAW_USER_STATS_PROCESSED as run by mark_user_stats_processed
MarkUserStatsProcessed(rows, rawId, error) ==
    [i \in DOMAIN rows |->
        IF rows[i].id = rawId THEN [rows[i] EXCEPT !.processed = TRUE]
        ELSE rows[i]]

\* variant: the statement without its WHERE clause
IncrementAttemptProcessingAll(rows, rawId) ==
    [i \in DOMAIN rows |->
        [rows[i] EXCEPT !.processing_attempts = @ + 1]]

\* INCREMENT_RAW_ATTEMPT_PROCESSING
IncrementAttemptProcessing(rows, rawId) ==
    [i \in DOMAIN rows |->
        IF rows[i].id = rawId
        THEN [rows[i] EXCEPT !.processing_attempts = @ + 1]
        ELSE rows[i]]

----------------------------------------------------------------------------
(* Canonical table tests.test_attempt_b *)

\* StatsRepository.upsert_attempt with TEST_ATTEMPT_UPSERT: on conflict the
\* columns student_id, test_id and date_of_attempt keep their stored value
UpsertAttempt(biz, payload) ==
    LET params == [student_id |-> payload.student_id,
                   test_id |-> payload.test_id,
                   date_of_attempt |-> payload.date_of_attempt,
                   point |-> payload.point,
                   completed |-> payload.completed,
                   passed |-> payload.passed,
                   certificate_id |-> payload.certificate_id]
        id == payload.attempt_id
    IN IF id \in DOMAIN biz
       THEN [biz EXCEPT ![id] = [@ EXCEPT !.point = params.point,
                                          !.completed = params.completed,
                                          !.passed = params.passed,
                                          !.certificate_id = params.certificate_id]]
       ELSE biz @@ (id :> params)

----------------------------------------------------------------------------
(* Aggregation *)

RowsOfStudent(biz, s) == {a \in DOMAIN biz : biz[a].student_id = s}

\* SQL aggregates over a set of row ids, one row at a time
RECURSIVE CountWhere(_, _, _)
CountWhere(biz, ids, v) ==
    IF ids = {} THEN 0
    ELSE LET a == CHOOSE x \in ids : TRUE
         IN (IF biz[a].passed = v THEN 1 ELSE 0) + CountWhere(biz, ids \ {a}, v)

RECURSIVE SumPoint(_, _)
SumPoint(biz, ids) ==
    IF ids = {} THEN 0
    ELSE LET a == CHOOSE x \in ids : TRUE
         IN (IF biz[a].point = NullInt THEN 0 ELSE biz[a].point)
            + SumPoint(biz, ids \ {a})

RECURSIVE CountPoint(_, _)
CountPoint(biz, ids) ==
    IF ids = {} THEN 0
    ELSE LET a == CHOOSE x \in ids : TRUE
         IN (IF biz[a].point = NullInt THEN 0 ELSE 1) + CountPoint(biz, ids \ {a})

RECURSIVE MaxDate(_, _)
MaxDate(biz, ids) ==
    IF ids = {} THEN NullInt
    ELSE LET a == CHOOSE x \in ids : TRUE
             rest == MaxDate(biz, ids \ {a})
         IN IF biz[a].date_of_attempt > rest THEN biz[a].date_of_attempt ELSE rest

\* AVG(point) with COALESCE(.., 0), in 1/AvgScale units
AvgPoint(biz, ids) ==
    IF CountPoint(biz, ids) = 0 THEN 0
    ELSE (SumPoint(biz, ids) * AvgScale) \div CountPoint(biz, ids)

\* variant: every attempt that did not pass is counted as failed
StudentStatsCalculateFailedAsRest(biz, s) ==
    LET ids == RowsOfStudent(biz, s)
    IN IF ids = {} THEN <<>>
       ELSE << [student_id |-> s,
                total_attempts |-> Cardinality(ids),
                passed_attempts |-> CountWhere(biz, ids, "true"),
                failed_attempts |->
                    Cardinality(ids) - CountWhere(biz, ids, "true"),
                avg_score |-> AvgPoint(biz, ids),
                total_tests_taken |->
                    Cardinality({biz[a].test_id : a \in ids} \ {Null}),
                last_attempt_at |-> MaxDate(biz, ids)] >>

\* STUDENT_STATS_CALCULATE: GROUP BY student_id yields no row for a student
\* without attempts, else one row
StudentStatsCalculate(biz, s) ==
    LET ids == RowsOfStudent(biz, s)
    IN IF ids = {} THEN <<>>
       ELSE << [student_id |-> s,
                total_attempts |-> Cardinality(ids),
                passed_attempts |-> CountWhere(biz, ids, "true"),
                failed_attempts |-> CountWhere(biz, ids, "false"),
                avg_score |-> AvgPoint(biz, ids),
                total_tests_taken |->
                    Cardinality({biz[a].test_id : a \in ids} \ {Null}),
                last_attempt_at |-> MaxDate(biz, ids)] >>

\* the stats dictionary built by calculate_and_save_aggregated
CalculateStats(biz, s) ==
    LET result == StudentStatsCalculate(biz, s)
    IN IF result = <<>>
       THEN [student_id |-> s, total_attempts |-> 0, passed_attempts |-> 0,
             failed_attempts |-> 0, avg_score |-> 0, total_tests_taken |-> 0,
             last_attempt_at |-> NullInt]
       ELSE [student_id |-> s,
             total_attempts |-> result[1].total_attempts,
             passed_attempts |-> result[1].passed_attempts,
             failed_attempts |-> result[1].failed_attempts,
             avg_score |-> result[1].avg_score,
             total_tests_taken |-> result[1].total_tests_taken,
             last_attempt_at |-> result[1].last_attempt_at]

\* STUDENT_STATS_AGGREGATED_UPSERT: one row per student, overwritten; the row
\* read back by get_from_db is its stats_json column
SaveAggregated(agg, s, stats) ==
    IF s \in DOMAIN agg THEN [agg EXCEPT ![s] = stats] ELSE agg @@ (s :> stats)

\* variant: the statement fails after part of the row was written
ExecuteUpsertTorn(agg, s, stats, fails) ==
    IF fails
    THEN SaveAggregated(agg, s, [stats EXCEPT !.passed_attempts = 0,
                                              !.failed_attempts = 0])
    ELSE SaveAggregated(agg, s, stats)

\* database.execute of STUDENT_STATS_AGGREGATED_UPSERT: the statement runs in
\* its own transaction (engine.begin), which is rolled back when it raises
ExecuteUpsert(agg, s, stats, fails) ==
    IF fails THEN agg ELSE SaveAggregated(agg, s, stats)

\* json.dumps / json.loads of the stats dictionary stored under a Redis key
JsonDumps(v) == [json |-> v]
JsonLoads(str) == str.json

\* redis setex / delete / get on one key family
RedisSet(c, s, v) ==
    IF s \in DOMAIN c THEN [c EXCEPT ![s] = JsonDumps(v)]
    ELSE c @@ (s :> JsonDumps(v))

\* variant: the key that is deleted is not the key that is read
RedisDeleteOtherKey(c, s) == c

RedisDelete(c, s) == Restrict(c, DOMAIN c \ {s})

\* variant: the computed value is returned without being cached
SaveToRedisSkipped(c, s, stats) == c

\* StatsRepository.save_to_redis
SaveToRedis(c, s, stats) == RedisSet(c, s, stats)

----------------------------------------------------------------------------
(* Stats Processor: process_raw_attempts *)

StudentExists(sid) == sid \in Students

\* what str(e) is for the exception that ends the try block of one record
FailureMessage(row, fault) ==
    IF ~row.payload.valid THEN "contract validation failed"
    ELSE IF ~StudentExists(row.payload.student_id) THEN "student not found"
    ELSE "storage error"

\* the local variables of process_raw_attempts before its first loop, with
\* the calls the run will have completed: upserted are the students for whom
\* upsert_attempt returned, recalculated / cached those for whom
\* calculate_and_save_aggregated / save_to_redis returned, in call order,
\* recalc_raised those whose recomputation raised
StartOfBatch(raw, biz, agg, c) ==
    [raw |-> raw, business |-> biz, aggregated |-> agg, cache |-> c,
     affected |-> {}, processed |-> 0, failed |-> 0, raised |-> FALSE,
     upserted |-> {}, recalculated |-> <<>>, cached |-> <<>>,
     recalc_raised |-> {}]

\* what a run of process_raw_attempts leaves to be observed: no return
\* value (the function ends without a return statement, so the caller
\* receives None), its local counters, and the calls it completed
CallsOf(acc) ==
    [none |-> TRUE, returned |-> Null,
     counters |-> [processed |-> acc.processed, failed |-> acc.failed],
     upserted |-> acc.upserted,
     recalculated |-> acc.recalculated, cached |-> acc.cached,
     recalc_raised |-> acc.recalc_raised]

\* one iteration of the batch loop on record row under the injected fault;
\* acc carries the tables and the local variables of process_raw_attempts
ProcessRecord(acc, row, fault) ==
    LET payload == row.payload
        validated == payload.valid
        found == validated /\ StudentExists(payload.student_id)
        upserted == found /\ fault # "upsert_attempt"
        marked == upserted /\ fault \notin {"mark_first", "mark_both"}
        biz == IF upserted THEN UpsertAttempt(acc.business, payload)
               ELSE acc.business
        ups == IF upserted THEN acc.upserted \cup {payload.student_id}
               ELSE acc.upserted
    IN IF marked
       THEN [acc EXCEPT !.business = biz,
                        !.upserted = ups,
                        !.raw = MarkAttemptProcessed(acc.raw, row.id, Null),
                        !.affected = @ \cup {payload.student_id},
                        !.processed = @ + 1]
       ELSE IF fault = "mark_both"
       THEN \* the call in the except block raises: the exception leaves the loop
            [acc EXCEPT !.business = biz, !.upserted = ups, !.raised = TRUE]
       ELSE [acc EXCEPT !.business = biz,
                        !.upserted = ups,
                        !.raw = MarkAttemptProcessed(acc.raw, row.id,
                                                     FailureMessage(row, fault)),
                        !.failed = @ + 1]

RECURSIVE ProcessLoop(_, _, _, _)
ProcessLoop(acc, raws, faults, i) ==
    IF i > Len(raws) \/ acc.raised THEN acc
    ELSE ProcessLoop(ProcessRecord(acc, raws[i], faults[i]), raws, faults, i + 1)

\* the second loop: recompute and re-cache every affected student
RECURSIVE RecalculateLoop(_, _, _)
RecalculateLoop(acc, todo, rfaults) ==
    IF todo = {} THEN acc
    ELSE LET s == CHOOSE x \in todo : TRUE
             stats == CalculateStats(acc.business, s)
             next ==
                 IF rfaults[s] = "calculate"
                 THEN [acc EXCEPT !.recalc_raised = @ \cup {s}]
                 ELSE IF rfaults[s] = "save_to_redis"
                 THEN [acc EXCEPT !.aggregated = SaveAggregated(@, s, stats),
                                  !.recalculated = Append(@, s),
                                  !.recalc_raised = @ \cup {s}]
                 ELSE [acc EXCEPT !.aggregated = SaveAggregated(@, s, stats),
                                  !.recalculated = Append(@, s),
                                  !.cache = SaveToRedis(@, s, stats),
                                  !.cached = Append(@, s)]
         IN RecalculateLoop(next, todo \ {s}, rfaults)

\* the whole of process_raw_attempts(batch_size) on the given tables
RunProcessRawAttempts(raw, biz, agg, c, faults, rfaults) ==
    LET raws == GetUnprocessedAttempts(raw, BatchSize)
        looped == ProcessLoop(StartOfBatch(raw, biz, agg, c), raws, faults, 1)
    IN IF looped.raised THEN looped
       ELSE RecalculateLoop(looped, looped.affected, rfaults)

----------------------------------------------------------------------------
(* Stats Processor: process_raw_user_stats *)

\* failures of the storage layer injected into one record of the batch
UserStatsFaults == {"none", "mark_first", "mark_both"}

\* variant: the except block does not mark the record
ProcessUserStatsRecordUnmarked(acc, row, fault) ==
    IF row.payload.valid /\ fault = "none"
    THEN [acc EXCEPT !.raw = MarkUserStatsProcessed(acc.raw, row.id, Null),
                     !.processed = @ + 1]
    ELSE [acc EXCEPT !.failed = @ + 1]

\* one iteration of the loop of process_raw_user_stats: validate_user_stats,
\* then mark_user_stats_processed, in the except block with str(e)
ProcessUserStatsRecord(acc, row, fault) ==
    IF row.payload.valid /\ fault = "none"
    THEN [acc EXCEPT !.raw = MarkUserStatsProcessed(acc.raw, row.id, Null),
                     !.processed = @ + 1]
    ELSE IF fault = "mark_both"
    THEN \* the call in the except block raises: the exception leaves the loop
         [acc EXCEPT !.raised = TRUE]
    ELSE [acc EXCEPT !.raw = MarkUserStatsProcessed(acc.raw, row.id,
                                                    "validation or storage error"),
                     !.failed = @ + 1]

RECURSIVE UserStatsLoop(_, _, _, _)
UserStatsLoop(acc, raws, faults, i) ==
    IF i > Len(raws) \/ acc.raised THEN acc
    ELSE UserStatsLoop(ProcessUserStatsRecord(acc, raws[i], faults[i]),
                       raws, faults, i + 1)

----------------------------------------------------------------------------
(* Certificate scan *)

CertIds == {"c1", "c2", "c3", "c4"}

\* failures injected into generate_certificate for one attempt
CertFaults == {"none", "keycloak", "create", "store_certificate",
               "update_s3_key", "update_attempt"}

Eligible(biz, a) ==
    biz[a].passed = "true" /\ biz[a].completed /\ biz[a].certificate_id = Null

\* orders in which ORDER BY date_of_attempt DESC may return the ids
DateDescOrders(biz, ids) ==
    {o \in [1..Cardinality(ids) -> ids] :
        /\ Range(o) = ids
        /\ \A i, j \in DOMAIN o :
              i < j => biz[o[i]].date_of_attempt >= biz[o[j]].date_of_attempt}

\* variant: the query runs, without the certificate_id IS NULL condition
GetPassingAttemptsIgnoringCertificate(biz) ==
    [is_none |-> FALSE,
     ids |-> {a \in DOMAIN biz : biz[a].passed = "true" /\ biz[a].completed}]

\* certificate_repository.get_passing_attempts_without_certificates: the
\* method consists of its docstring, so the call evaluates to None
GetPassingAttemptsWithoutCertificates(biz) ==
    [is_none |-> TRUE, ids |-> {}]

\* get_passing_attempts_without_certificates_for_student with
\* GET_PASSING_ATTEMPTS_WITHOUT_CERTIFICATES_FOR_STUDENT
GetPassingAttemptsWithoutCertificatesForStudent(biz, s) ==
    [is_none |-> FALSE,
     ids |-> {a \in DOMAIN biz : Eligible(biz, a) /\ biz[a].student_id = s}]

\* certificate_repository._get_next_certificate_number
MaxCertificateNumber(certs) ==
    IF DOMAIN certs = {} THEN 0
    ELSE CHOOSE n \in {certs[c].certificate_number : c \in DOMAIN certs} :
            \A c \in DOMAIN certs : certs[c].certificate_number <= n

GetNextCertificateNumber(certs) == MaxCertificateNumber(certs) + 1

FreshCertId(certs) == CHOOSE c \in CertIds : c \notin DOMAIN certs

\* variant: a failed upload leaves the new certificate record in place
GenerateForAttemptKeepingRecord(acc, a, fault) ==
    LET sid == acc.business[a].student_id
        cid == FreshCertId(acc.certificates)
        record == [student_id |-> sid,
                   certificate_number |-> GetNextCertificateNumber(acc.certificates),
                   pdf_s3_key |-> Null]
        created == acc.certificates @@ (cid :> record)
        stored == [created EXCEPT ![cid].pdf_s3_key = "s3"]
    IN IF fault \in {"keycloak", "create"}
       THEN [acc EXCEPT !.failed = @ + 1]
       ELSE IF fault \in {"store_certificate", "update_s3_key"}
       THEN [acc EXCEPT !.certificates = created, !.failed = @ + 1]
       ELSE IF fault = "update_attempt"
       THEN [acc EXCEPT !.certificates = stored, !.failed = @ + 1]
       ELSE [acc EXCEPT !.certificates = stored,
                        !.business = [@ EXCEPT ![a].certificate_id = cid],
                        !.issued = @ \cup {a},
                        !.failed = @ + 1]

\* CertificateService.generate_certificate followed by the call of
\* certificate_repo.create_certificate in the scan loop (the repository has
\* no such method: the call raises AttributeError inside the try block)
GenerateForAttempt(acc, a, fault) ==
    LET sid == acc.business[a].student_id
        cid == FreshCertId(acc.certificates)
        record == [student_id |-> sid,
                   certificate_number |-> GetNextCertificateNumber(acc.certificates),
                   pdf_s3_key |-> Null]
        created == acc.certificates @@ (cid :> record)
        stored == [created EXCEPT ![cid].pdf_s3_key = "s3"]
    IN IF fault \in {"keycloak", "create", "store_certificate"}
       THEN \* nothing is left behind: store failure deletes the new record
            [acc EXCEPT !.failed = @ + 1]
       ELSE IF fault = "update_s3_key"
       THEN [acc EXCEPT !.certificates = created, !.failed = @ + 1]
       ELSE IF fault = "update_attempt"
       THEN [acc EXCEPT !.certificates = stored, !.failed = @ + 1]
       ELSE [acc EXCEPT !.certificates = stored,
                        !.business = [@ EXCEPT ![a].certificate_id = cid],
                        !.issued = @ \cup {a},
                        !.failed = @ + 1]

RECURSIVE ScanLoop(_, _, _, _)
ScanLoop(acc, order, faults, i) ==
    IF i > Len(order) THEN acc
    ELSE ScanLoop(GenerateForAttempt(acc, order[i], faults[i]), order, faults, i + 1)

\* requests that run check_and_generate_certificates_for_student at the same
\* time on the event loop
ScanIds == {"p1", "p2"}

\* a request that is not running: pc is the await the coroutine is
\* suspended at, todo the rest of the query's answer
IdleScan ==
    [pc |-> "idle", student |-> Null, seen |-> {}, todo |-> <<>>,
     number |-> 0, cid |-> Null, made |-> {}]

IdleScans == [p \in ScanIds |-> IdleScan]

\* the coroutines that may be inside calculate_and_save_aggregated at the
\* same time: two processing runs and a manual refresh
RecomputeIds == {"process_1", "process_2", "refresh"}

\* a coroutine that is not running: pc is the await it is suspended at,
\* todo the rest of its batch, affected its affected_students, stats the
\* answer of STUDENT_STATS_CALCULATE it holds
IdleRecompute ==
    [pc |-> "idle", todo |-> <<>>, upserted |-> FALSE, affected |-> {},
     student |-> Null, stats |-> NoResult]

IdleRecomputes == [p \in RecomputeIds |-> IdleRecompute]

----------------------------------------------------------------------------
(* Operations *)

\* arg is the student id or attempt id the operation was called with
Observe(op, arg, raised, ret) ==
    [op |-> op, arg |-> arg, raised |-> raised, ret |-> ret]

IsScan(op) ==
    op \in {"check_and_generate_certificates",
            "check_and_generate_certificates_for_student"}

Init ==
    /\ rawAttempts = <<>>
    /\ rawUserStats = <<>>
    /\ business = <<>>
    /\ aggregated = <<>>
    /\ cache = <<>>
    /\ cacheFull = <<>>
    /\ certificates = <<>>
    /\ contractManager = IdleManager
    /\ schemaLoader = IdleLoader
    /\ scheduler = IdleScheduler
    /\ scans = IdleScans
    /\ recomputes = IdleRecomputes
    /\ last = Observe("init", Null, FALSE, NoResult)

\* UUID(str(value)): the text of None is not a UUID
IsUuid(value) == value # Null

\* TestingClient.fetch_attempt_detail: the answer of the testing service is
\* stored as a raw attempt whether or not it passes validation, and a failed
\* validation is re-raised after the insert; the insert of an invalid answer
\* first converts its student_id, which raises ValueError when it is absent
FetchAttemptDetail(a, sh) ==
    LET payload == AttemptPayload(a, sh)
        tid == IF payload.valid THEN payload.test_id ELSE Null
        converted == payload.valid \/ IsUuid(payload.student_id)
    IN /\ rawAttempts' = IF converted
                         THEN InsertRawAttempt(rawAttempts, a,
                                               payload.student_id, tid, payload)
                         ELSE rawAttempts
       /\ last' = Observe("fetch_attempt_detail", a, ~payload.valid,
                          [payload |-> payload,
                           error |-> IF payload.valid THEN "none"
                                     ELSE IF converted
                                     THEN "ContractValidationError"
                                     ELSE "ValueError"])
       /\ UNCHANGED <<rawUserStats, business, aggregated, cache, cacheFull,
                      certificates>>
       /\ UNCHANGED componentVars

\* integration_repository.mark_attempt_processed
MarkProcessed(a) ==
    /\ HasRaw(rawAttempts, a)
    /\ rawAttempts' = MarkAttemptProcessed(rawAttempts, a, Null)
    /\ last' = Observe("mark_attempt_processed", a, FALSE, NoResult)
    /\ UNCHANGED <<rawUserStats, business, aggregated, cache, cacheFull,
                   certificates>>
    /\ UNCHANGED componentVars

\* integration_repository.increment_attempt_processing
IncrementProcessing(a) ==
    /\ HasRaw(rawAttempts, a)
    /\ RawOf(rawAttempts, a).processing_attempts < MaxProcessingAttempts
    /\ rawAttempts' = IncrementAttemptProcessing(rawAttempts, a)
    /\ last' = Observe("increment_attempt_processing", a, FALSE,
                       [value |-> RawOf(rawAttempts, a).processing_attempts + 1])
    /\ UNCHANGED <<rawUserStats, business, aggregated, cache, cacheFull,
                   certificates>>
    /\ UNCHANGED componentVars

\* StatsProcessor.process_raw_attempts: the function has no return statement
ProcessRawAttempts(recordFaults, recalcFaults) ==
    LET raws == GetUnprocessedAttempts(rawAttempts, BatchSize)
    IN /\ raws # <<>>
       /\ \E faults \in [1..Len(raws) -> recordFaults] :
            LET start == StartOfBatch(rawAttempts, business, aggregated, cache)
                looped == ProcessLoop(start, raws, faults, 1)
                todo == IF looped.raised THEN {} ELSE looped.affected
            IN \E rfaults \in [todo -> recalcFaults] :
                 LET done == RunProcessRawAttempts(rawAttempts, business,
                                 aggregated, cache, faults, rfaults)
                 IN /\ rawAttempts' = done.raw
                    /\ business' = done.business
                    /\ aggregated' = done.aggregated
                    /\ cache' = done.cache
                    /\ last' = Observe("process_raw_attempts", Null, done.raised,
                                       CallsOf(done))
       /\ UNCHANGED <<rawUserStats, cacheFull, certificates>>
       /\ UNCHANGED componentVars

\* what ran just before on the same student, as seen by a read of student s
Preceding(s) ==
    IF last.arg # s THEN "other"
    ELSE IF last.op = "get_user_stats"
    THEN (IF last.ret.tier = 1 THEN "get_user_stats hit" ELSE "get_user_stats miss")
    ELSE last.op

\* StatsRepository.get_user_stats: Redis -> aggregated table -> calculate
GetUserStats(s) ==
    /\ IF s \in DOMAIN cache
       THEN /\ last' = Observe("get_user_stats", s, FALSE,
                           [tier |-> 1, stats |-> JsonLoads(cache[s]),
                            after |-> Preceding(s)])
            /\ UNCHANGED <<aggregated, cache>>
       ELSE IF s \in DOMAIN aggregated
       THEN /\ cache' = SaveToRedis(cache, s, aggregated[s])
            /\ last' = Observe("get_user_stats", s, FALSE,
                           [tier |-> 2, stats |-> aggregated[s],
                            after |-> Preceding(s)])
            /\ UNCHANGED aggregated
       ELSE LET stats == CalculateStats(business, s)
            IN /\ aggregated' = SaveAggregated(aggregated, s, stats)
               /\ cache' = SaveToRedis(cache, s, stats)
               /\ last' = Observe("get_user_stats", s, FALSE,
                              [tier |-> 3, stats |-> stats,
                               after |-> Preceding(s)])
    /\ UNCHANGED <<rawAttempts, rawUserStats, business, cacheFull, certificates>>
    /\ UNCHANGED componentVars

\* the bundle assembled by StatsService: the aggregate, the student's
\* certificates and the student's attempts
FullData(stats, biz, certs, s) ==
    [statistics |-> stats,
     certificates |-> {c \in DOMAIN certs : certs[c].student_id = s},
     attempts |-> RowsOfStudent(biz, s)]

\* StatsService.refresh_user_statistics
RefreshUserStatistics(s) ==
    LET stats == CalculateStats(business, s)
        result == FullData(stats, business, certificates, s)
    IN /\ aggregated' = SaveAggregated(aggregated, s, stats)
       /\ cacheFull' = RedisSet(cacheFull, s, result)
       /\ last' = Observe("refresh_user_statistics", s, FALSE, result)
       /\ UNCHANGED <<rawAttempts, rawUserStats, business, cache, certificates>>
       /\ UNCHANGED componentVars

\* StatsRepository.invalidate_cache
InvalidateCache(s) ==
    /\ cache' = RedisDelete(cache, s)
    /\ last' = Observe("invalidate_cache", s, FALSE, NoResult)
    /\ UNCHANGED <<rawAttempts, rawUserStats, business, aggregated, cacheFull,
                   certificates>>
    /\ UNCHANGED componentVars

\* a Redis key reaches its TTL (REDIS_CACHE_TTL) and is dropped by Redis
ExpireKey(s) ==
    /\ s \in DOMAIN cache \cup DOMAIN cacheFull
    /\ \/ s \in DOMAIN cache /\ cache' = RedisDelete(cache, s)
          /\ UNCHANGED cacheFull
       \/ s \in DOMAIN cacheFull /\ cacheFull' = RedisDelete(cacheFull, s)
          /\ UNCHANGED cache
    /\ last' = Observe("expire", s, FALSE, NoResult)
    /\ UNCHANGED <<rawAttempts, rawUserStats, business, aggregated, certificates>>
    /\ UNCHANGED componentVars

\* the loop shared by the two scans, on the answer of the eligibility query
RunScan(op, s, query) ==
    LET afterScan == IsScan(last.op)
        prevIssued == IF afterScan THEN last.ret.issued ELSE {}
    IN IF query.is_none
       THEN \* iterating over None raises TypeError before the loop body
            /\ last' = Observe(op, s, TRUE,
                           [issued |-> {}, after_scan |-> afterScan,
                            prev_issued |-> prevIssued,
                            generated |-> 0, failed |-> 0])
            /\ UNCHANGED <<business, certificates>>
       ELSE /\ Cardinality(DOMAIN certificates) + Cardinality(query.ids)
                  <= MaxCertificates
            /\ \E order \in DateDescOrders(business, query.ids) :
               \E faults \in [1..Len(order) -> CertFaults] :
                 LET start == [business |-> business,
                               certificates |-> certificates,
                               issued |-> {}, generated |-> 0, failed |-> 0]
                     done == ScanLoop(start, order, faults, 1)
                 IN /\ business' = done.business
                    /\ certificates' = done.certificates
                    /\ last' = Observe(op, s, FALSE,
                                   [issued |-> done.issued,
                                    after_scan |-> afterScan,
                                    prev_issued |-> prevIssued,
                                    generated |-> done.generated,
                                    failed |-> done.failed])

\* StatsProcessor.check_and_generate_certificates
CheckAndGenerateCertificates ==
    /\ RunScan("check_and_generate_certificates", Null,
               GetPassingAttemptsWithoutCertificates(business))
    /\ UNCHANGED <<rawAttempts, rawUserStats, aggregated, cache, cacheFull>>
    /\ UNCHANGED componentVars

\* StatsProcessor.check_and_generate_certificates_for_student
CheckAndGenerateCertificatesForStudent(s) ==
    /\ RunScan("check_and_generate_certificates_for_student", s,
               GetPassingAttemptsWithoutCertificatesForStudent(business, s))
    /\ UNCHANGED <<rawAttempts, rawUserStats, aggregated, cache, cacheFull>>
    /\ UNCHANGED componentVars

\* the read path: fetch, process, read, refresh, invalidate, expiry
Next ==
    \/ \E a \in PipelineAttempts, sh \in PayloadShapes : FetchAttemptDetail(a, sh)
    \/ ProcessRawAttempts(RecordFaults, {"none"})
    \/ \E s \in Students : GetUserStats(s)
    \/ \E s \in Students : RefreshUserStatistics(s)
    \/ \E s \in Students : InvalidateCache(s)
    \/ \E s \in Students : ExpireKey(s)

Spec == Init /\ [][Next]_vars

\* the Raw Store on its own: fetches, processor retries, marking
NextStore ==
    \/ \E a \in StoreAttempts, sh \in PayloadShapes : FetchAttemptDetail(a, sh)
    \/ \E a \in StoreAttempts : IncrementProcessing(a)
    \/ \E a \in StoreAttempts : MarkProcessed(a)

SpecStore == Init /\ [][NextStore]_vars

\* the Stats Processor: fetch and batch processing under storage failures
NextProc ==
    \/ \E a \in ProcAttempts, sh \in PayloadShapes : FetchAttemptDetail(a, sh)
    \/ ProcessRawAttempts(RecordFaults, RecalcFaults)

SpecProc == Init /\ [][NextProc]_vars

\* certificate issuance: fetch, process and the two scans
NextCert ==
    \/ \E a \in CertAttempts, sh \in PayloadShapes : FetchAttemptDetail(a, sh)
    \/ ProcessRawAttempts({"none"}, {"none"})
    \/ CheckAndGenerateCertificates
    \/ \E s \in Students : CheckAndGenerateCertificatesForStudent(s)

SpecCert == Init /\ [][NextCert]_vars

\* what the testing service answers for a user's aggregates or attempt list
UserStatsPayload(s, valid) ==
    [kind |-> "user_stats", student_id |-> s, valid |-> valid]

AttemptsListPayload(s, valid) ==
    [kind |-> "attempts_list", student_id |-> s, valid |-> valid]

\* TestingClient.fetch_user_stats: the payload is stored in
\* integration.raw_user_stats on both paths
FetchUserStats(s, valid) ==
    LET payload == UserStatsPayload(s, valid)
    IN /\ Len(rawUserStats) < MaxRawUserStats
       /\ rawUserStats' = InsertRawUserStats(rawUserStats, s, payload)
       /\ last' = Observe("fetch_user_stats", s, ~valid,
                          [payload |-> payload,
                           error |-> IF valid THEN "none"
                                     ELSE "ContractValidationError"])
       /\ UNCHANGED <<rawAttempts, business, aggregated, cache, cacheFull,
                      certificates>>
       /\ UNCHANGED componentVars

\* for item in validated: insert_raw_attempt(item.attempt_id, user_id, ..)
RECURSIVE InsertItems(_, _, _, _, _)
InsertItems(rows, order, s, sh, i) ==
    IF i > Len(order) THEN rows
    ELSE LET item == AttemptPayload(order[i], sh)
         IN InsertItems(InsertRawAttempt(rows, order[i], s, item.test_id, item),
                        order, s, sh, i + 1)

\* TestingClient.fetch_user_attempts: a list that fails validation is stored
\* whole in integration.raw_user_stats; the items of a valid list are stored
\* one by one in integration.raw_attempts under the requested user
FetchUserAttempts(s, valid, sh) ==
    LET payload == AttemptsListPayload(s, valid)
        ids == {a \in ClientAttempts : AttemptOwner[a] = s}
    IN /\ IF valid
          THEN /\ \E order \in [1..Cardinality(ids) -> ids] :
                    /\ Range(order) = ids
                    /\ rawAttempts' = InsertItems(rawAttempts, order, s, sh, 1)
               /\ UNCHANGED rawUserStats
          ELSE /\ Len(rawUserStats) < MaxRawUserStats
               /\ rawUserStats' = InsertRawUserStats(rawUserStats, s, payload)
               /\ UNCHANGED rawAttempts
       /\ last' = Observe("fetch_user_attempts", s, ~valid,
                          [payload |-> payload, items |-> IF valid THEN ids ELSE {},
                           shape |-> sh,
                           error |-> IF valid THEN "none"
                                     ELSE "ContractValidationError"])
       /\ UNCHANGED <<business, aggregated, cache, cacheFull, certificates>>
       /\ UNCHANGED componentVars

\* the Source Client: the three fetch operations
NextClient ==
    \/ \E s \in Students, valid \in BOOLEAN : FetchUserStats(s, valid)
    \/ \E s \in Students, valid \in BOOLEAN :
          FetchUserAttempts(s, valid, PassedShape)
    \/ \E a \in ClientAttempts, sh \in ClientShapes : FetchAttemptDetail(a, sh)

SpecClient == Init /\ [][NextClient]_vars

\* integration_repository.mark_user_stats_processed
MarkUserStats(rawId) ==
    /\ \E i \in DOMAIN rawUserStats : rawUserStats[i].id = rawId
    /\ rawUserStats' = MarkUserStatsProcessed(rawUserStats, rawId, Null)
    /\ last' = Observe("mark_user_stats_processed", Null, FALSE, NoResult)
    /\ UNCHANGED <<rawAttempts, business, aggregated, cache, cacheFull,
                   certificates>>
    /\ UNCHANGED componentVars

\* integration_repository.get_unprocessed_attempts(limit)
SelectUnprocessedAttempts(limit) ==
    /\ last' = Observe("get_unprocessed_attempts", Null, FALSE,
                       [limit |-> limit,
                        rows |-> GetUnprocessedAttempts(rawAttempts, limit)])
    /\ UNCHANGED dataVars
    /\ UNCHANGED componentVars

\* integration_repository.get_unprocessed_user_stats(limit)
SelectUnprocessedUserStats(limit) ==
    /\ last' = Observe("get_unprocessed_user_stats", Null, FALSE,
                       [limit |-> limit,
                        rows |-> GetUnprocessedUserStats(rawUserStats, limit)])
    /\ UNCHANGED dataVars
    /\ UNCHANGED componentVars

\* the two raw tables as queues: inserts, markings and the batch queries
NextQueue ==
    \/ \E a \in QueueAttempts : FetchAttemptDetail(a, PassedShape)
    \/ \E s \in Students : FetchUserStats(s, TRUE)
    \/ \E a \in QueueAttempts : MarkProcessed(a)
    \/ \E id \in 1..MaxRawUserStats : MarkUserStats(id)
    \/ \E limit \in 1..MaxLimit : SelectUnprocessedAttempts(limit)
    \/ \E limit \in 1..MaxLimit : SelectUnprocessedUserStats(limit)

SpecQueue == Init /\ [][NextQueue]_vars

\* StatsProcessor.process_raw_user_stats: returns its two counters
ProcessRawUserStats ==
    LET raws == GetUnprocessedUserStats(rawUserStats, BatchSize)
    IN /\ raws # <<>>
       /\ \E faults \in [1..Len(raws) -> UserStatsFaults] :
            LET start == [raw |-> rawUserStats, processed |-> 0, failed |-> 0,
                          raised |-> FALSE]
                done == UserStatsLoop(start, raws, faults, 1)
            IN /\ rawUserStats' = done.raw
               /\ last' = Observe("process_raw_user_stats", Null, done.raised,
                              [processed |-> done.processed,
                               failed |-> done.failed,
                               storage_failed |->
                                   \E i \in DOMAIN faults : faults[i] # "none"])
       /\ UNCHANGED <<rawAttempts, business, aggregated, cache, cacheFull,
                      certificates>>
       /\ UNCHANGED componentVars

\* user-level snapshots next to the attempt pipeline
NextUserStats ==
    \/ \E s \in Students, valid \in BOOLEAN : FetchUserStats(s, valid)
    \/ ProcessRawUserStats
    \/ \E a \in PipelineAttempts, sh \in PayloadShapes : FetchAttemptDetail(a, sh)
    \/ ProcessRawAttempts({"none"}, {"none"})

SpecUserStats == Init /\ [][NextUserStats]_vars

\* the Stats Processor on attempts of a known and of an unknown student
NextUnknown ==
    \/ \E a \in UnknownAttempts, sh \in PayloadShapes : FetchAttemptDetail(a, sh)
    \/ ProcessRawAttempts({"none"}, {"none"})

SpecUnknown == Init /\ [][NextUnknown]_vars

\* the local variables of the scan of request p
Scan(p) == scans[p]

\* check_and_generate_certificates_for_student up to its first await in the
\* loop: the eligibility query is answered
BeginScan(p, s) ==
    LET query == GetPassingAttemptsWithoutCertificatesForStudent(business, s)
    IN /\ Scan(p).pc = "idle"
       /\ \E order \in DateDescOrders(business, query.ids) :
             scans' = [scans EXCEPT ![p] =
                          [IdleScan EXCEPT !.pc = "loop", !.student = s,
                                           !.seen = query.ids,
                                           !.todo = order]]
       /\ UNCHANGED <<dataVars, contractManager, schemaLoader, scheduler,
                    recomputes, last>>

\* generate_certificate up to certificate_repo.create's first statement:
\* GET_MAX_CERTIFICATE_NUMBER is answered
ReadCertificateNumber(p) ==
    /\ Scan(p).pc = "loop"
    /\ Scan(p).todo # <<>>
    /\ scans' = [scans EXCEPT ![p].pc = "insert",
                              ![p].number = GetNextCertificateNumber(certificates)]
    /\ UNCHANGED <<dataVars, contractManager, schemaLoader, scheduler,
                    recomputes, last>>

\* certificate_repo.create's second statement: CERTIFICATE_INSERT with the
\* number read before
InsertCertificate(p) ==
    LET a == Head(Scan(p).todo)
        cid == FreshCertId(certificates)
    IN /\ Scan(p).pc = "insert"
       /\ Cardinality(DOMAIN certificates) < MaxCertificates
       /\ certificates' = certificates @@
             (cid :> [student_id |-> business[a].student_id,
                      certificate_number |-> Scan(p).number,
                      pdf_s3_key |-> Null])
       /\ scans' = [scans EXCEPT ![p].pc = "link", ![p].cid = cid]
       /\ UNCHANGED <<rawAttempts, rawUserStats, business, aggregated, cache,
                      cacheFull, contractManager, schemaLoader, scheduler,
                      recomputes, last>>

\* the rest of generate_certificate: the PDF is stored, update_s3_key and
\* update_test_attempt_certificate_id run; the scan then counts the attempt
\* as failed (create_certificate) and goes to the next one
LinkCertificate(p) ==
    LET a == Head(Scan(p).todo)
        cid == Scan(p).cid
    IN /\ Scan(p).pc = "link"
       /\ certificates' = [certificates EXCEPT ![cid].pdf_s3_key = "s3"]
       /\ business' = [business EXCEPT ![a].certificate_id = cid]
       /\ scans' = [scans EXCEPT ![p].pc = "loop",
                                 ![p].todo = Tail(@),
                                 ![p].made = @ \cup {[attempt |-> a, cid |-> cid]}]
       /\ UNCHANGED <<rawAttempts, rawUserStats, aggregated, cache, cacheFull,
                      contractManager, schemaLoader, scheduler,
                      recomputes, last>>

\* the loop is over and the scan returns its counters
EndScan(p) ==
    /\ Scan(p).pc = "loop"
    /\ Scan(p).todo = <<>>
    /\ scans' = [scans EXCEPT ![p] = IdleScan]
    /\ last' = Observe("check_and_generate_certificates_for_student",
                       Scan(p).student, FALSE,
                       [issued |-> {x.attempt : x \in Scan(p).made},
                        after_scan |-> FALSE, prev_issued |-> {},
                        generated |-> 0,
                        failed |-> Cardinality(Scan(p).made)])
    /\ UNCHANGED <<dataVars, contractManager, schemaLoader, scheduler,
                    recomputes>>

\* two requests scanning while the pipeline delivers attempts
NextConcurrent ==
    \/ \E a \in PipelineAttempts, sh \in PayloadShapes : FetchAttemptDetail(a, sh)
    \/ ProcessRawAttempts({"none"}, {"none"})
    \/ \E p \in ScanIds, s \in Students : BeginScan(p, s)
    \/ \E p \in ScanIds : ReadCertificateNumber(p)
    \/ \E p \in ScanIds : InsertCertificate(p)
    \/ \E p \in ScanIds : LinkCertificate(p)
    \/ \E p \in ScanIds : EndScan(p)

SpecConcurrent == Init /\ [][NextConcurrent]_vars

\* the step of a refresh that raises, in the order the steps are taken
RefreshFaults ==
    {"none", "calculate", "upsert", "certificates", "attempts", "raw_data",
     "save_full_data"}

\* the steps of refresh_user_statistics that come after the upsert
AfterUpsert == {"none", "certificates", "attempts", "raw_data", "save_full_data"}

\* POST /{student_id}/refresh: refresh_student_stats calls
\* StatsService.refresh_user_statistics and turns any exception into
\* HTTP 500; fault names the call that raises
RefreshStudentStats(s, fault) ==
    LET stats == CalculateStats(business, s)
        result == FullData(stats, business, certificates, s)
    IN /\ aggregated' = IF fault = "calculate" THEN aggregated
                        ELSE ExecuteUpsert(aggregated, s, stats,
                                           fault \notin AfterUpsert)
       /\ cacheFull' = IF fault = "none" THEN RedisSet(cacheFull, s, result)
                       ELSE cacheFull
       /\ last' = Observe("refresh_student_stats", s, fault # "none",
                          IF fault = "none"
                          THEN [fault |-> fault, status_code |-> 200,
                                data |-> result]
                          ELSE [fault |-> fault, status_code |-> 500,
                                data |-> NoResult])
       /\ UNCHANGED <<rawAttempts, rawUserStats, business, cache, certificates>>
       /\ UNCHANGED componentVars

\* on-demand refresh next to the pipeline that changes the business table
NextRefresh ==
    \/ \E a \in PipelineAttempts, sh \in PayloadShapes : FetchAttemptDetail(a, sh)
    \/ ProcessRawAttempts({"none"}, RecalcFaults)
    \/ \E s \in Students, fault \in RefreshFaults : RefreshStudentStats(s, fault)

SpecRefresh == Init /\ [][NextRefresh]_vars

\* StatsWorker.start: the three jobs are added (replacing jobs of the same
\* id) and the scheduler is started unless it runs already
StartWorker ==
    /\ scheduler' = [scheduler EXCEPT !.jobs = Jobs, !.running = TRUE]
    /\ last' = Observe("stats_worker.start", Null, FALSE, NoResult)
    /\ UNCHANGED <<dataVars, contractManager, schemaLoader, scans,
                    recomputes>>

\* StatsWorker.stop
StopWorker ==
    /\ scheduler' = [scheduler EXCEPT !.running = FALSE]
    /\ last' = Observe("stats_worker.stop", Null, FALSE, NoResult)
    /\ UNCHANGED <<dataVars, contractManager, schemaLoader, scans,
                    recomputes>>

\* one firing of the interval trigger of a job: the scheduler calls the
\* wrapped job; the run is counted modulo 2.  The tables the body works on
\* are those of the other specifications and are left out here.
RunJob(job, bodyOutcome) ==
    LET result == JobWrapper(bodyOutcome)
    IN /\ scheduler.running
       /\ job \in scheduler.jobs
       /\ scheduler' =
             [scheduler EXCEPT !.runs[job] = (@ + 1) % 2,
                               !.outcome[job] = IF bodyOutcome = "returns"
                                                THEN "ok" ELSE "failed"]
       /\ last' = Observe(job, Null, result = "raised",
                          [body |-> bodyOutcome,
                           propagated |-> result = "raised",
                           previous |-> scheduler.outcome[job]])
       /\ UNCHANGED <<dataVars, contractManager, schemaLoader, scans,
                    recomputes>>

NextWorker ==
    \/ StartWorker
    \/ StopWorker
    \/ \E j \in Jobs : \E o \in BodyOutcomes(j) : RunJob(j, o)

\* an interval trigger keeps firing while the scheduler runs
SpecWorker ==
    /\ Init
    /\ [][NextWorker]_vars
    /\ \A j \in Jobs : WF_vars(\E o \in BodyOutcomes(j) : RunJob(j, o))

\* the Schema Validator on its own.  The schemas directory is what is on
\* disk when the manager is built: user_stats holds v1; attempt_detail is
\* missing or holds any of v1, v2, v10, one of them possibly defective
InitValidate ==
    /\ \E caching \in BOOLEAN :
          contractManager = [IdleManager EXCEPT !.enable_caching = caching]
    /\ \E present \in BOOLEAN, names \in SUBSET SchemaFileNames :
       \E bad \in names \cup {<<>>}, defect \in SchemaDefects \ {"none"} :
          LET dir == [n \in names |->
                         SchemaOf("attempt_detail", n,
                                  IF n = bad THEN defect ELSE "none")]
              stats == WellFormedDir("user_stats", {FileV1})
          IN /\ (~present => names = {})
             /\ (bad = <<>> => defect = "untyped")
             /\ schemaLoader =
                  [files |-> IF present
                             THEN ("user_stats" :> stats) @@ ("attempt_detail" :> dir)
                             ELSE ("user_stats" :> stats),
                   schemas_cache |-> <<>>]
    /\ scheduler = IdleScheduler
    /\ scans = IdleScans
    /\ recomputes = IdleRecomputes
    /\ rawAttempts = <<>>
    /\ rawUserStats = <<>>
    /\ business = <<>>
    /\ aggregated = <<>>
    /\ cache = <<>>
    /\ cacheFull = <<>>
    /\ certificates = <<>>
    /\ last = Observe("init", Null, FALSE, NoResult)

\* ContractManager.validate(data, contract_name, version); conforms tells
\* whether data satisfies the schema
Validate(contract, version, conforms) ==
    LET key == CacheKey(contract, version)
        loaded == LoadSchema(schemaLoader, contract, version)
        hit == /\ contractManager.enable_caching
               /\ \E i \in DOMAIN contractManager.validators_cache :
                     contractManager.validators_cache[i] = key
        compile_called == loaded.ok /\ ~hit
        compiled == compile_called /\ loaded.schema.compiles
        usable == loaded.ok /\ (hit \/ compiled)
        used == IF hit THEN contractManager.compiled_from[key] ELSE loaded.schema
        inner == IF ~loaded.ok THEN loaded.error
                 ELSE IF ~usable THEN "JsonSchemaDefinitionException"
                 ELSE IF ~conforms THEN "JsonSchemaValueException"
                 ELSE "none"
        manager == IF usable THEN GetValidator(contractManager, key)
                   ELSE contractManager
        kept == {manager.validators_cache[i] : i \in DOMAIN manager.validators_cache}
    IN /\ schemaLoader' = loaded.loader
       /\ contractManager' =
             [manager EXCEPT !.compiled_from =
                 [k \in kept |-> IF k = key /\ ~hit THEN loaded.schema
                                 ELSE contractManager.compiled_from[k]]]
       /\ last' = Observe("validate", contract, Surface(inner) # "none",
                          [key |-> key, loaded |-> loaded.ok,
                           schema |-> loaded.schema, hit |-> hit,
                           before |-> contractManager.validators_cache,
                           conforms |-> conforms,
                           compile_called |-> compile_called,
                           used |-> used,
                           inner |-> inner,
                           error |-> Surface(inner)])
       /\ UNCHANGED <<rawAttempts, rawUserStats, business, aggregated, cache,
                      cacheFull, certificates>>
       /\ UNCHANGED <<scheduler, scans, recomputes>>

\* ContractManager.clear_cache
ClearCache ==
    /\ contractManager' = [contractManager EXCEPT !.validators_cache = <<>>,
                                                  !.compiled_from = <<>>]
    /\ last' = Observe("clear_cache", Null, FALSE, NoResult)
    /\ UNCHANGED <<rawAttempts, rawUserStats, business, aggregated, cache,
                   cacheFull, certificates, schemaLoader>>
    /\ UNCHANGED <<scheduler, scans, recomputes>>

\* SchemaLoader.clear_cache
ClearSchemaCache ==
    /\ schemaLoader' = [schemaLoader EXCEPT !.schemas_cache = <<>>]
    /\ last' = Observe("schema_loader.clear_cache", Null, FALSE, NoResult)
    /\ UNCHANGED <<rawAttempts, rawUserStats, business, aggregated, cache,
                   cacheFull, certificates, contractManager>>
    /\ UNCHANGED <<scheduler, scans, recomputes>>

NextValidate ==
    \/ \E c \in ValidateContracts, v \in VersionRequests, conforms \in BOOLEAN :
          Validate(c, v, conforms)
    \/ ClearCache
    \/ ClearSchemaCache

SpecValidate == InitValidate /\ [][NextValidate]_vars

\* a schema file is edited on disk while the application runs: the file of
\* this name in the contract's directory gets its next revision
ChangeSchemaFile(contract, name) ==
    /\ contract \in DOMAIN schemaLoader.files
    /\ name \in DOMAIN schemaLoader.files[contract]
    /\ schemaLoader.files[contract][name].revision < MaxRevision
    /\ schemaLoader' = [schemaLoader EXCEPT !.files[contract][name].revision = @ + 1]
    /\ last' = Observe("change_schema_file", contract, FALSE, NoResult)
    /\ UNCHANGED <<dataVars, contractManager, scheduler, scans,
                    recomputes>>

\* validation while schema files are being edited, from the default
\* directory (v1 of each contract)
NextSchemaChange ==
    \/ \E c \in ValidateContracts, v \in VersionRequests, conforms \in BOOLEAN :
          Validate(c, v, conforms)
    \/ ClearCache
    \/ ClearSchemaCache
    \/ \E c \in ValidateContracts : ChangeSchemaFile(c, FileV1)

SpecSchemaChange == Init /\ [][NextSchemaChange]_vars

(* StatsWorker: the bodies of the fetch and process jobs, and the handlers
   that call them on demand *)

\* student_repository.get_paginated(page=1, limit=3): the first page of the
\* student table, newest student first
StudentPage == <<"s1", "s2">>

\* what the testing service answers for one student during a run: the
\* aggregates ("unreachable" is an HTTP error, or an insert that raises
\* before the first row of the student is stored: either way the
\* iteration ends in its except clause with nothing stored), the attempt
\* list, and the detail of each listed attempt
FetchAnswers ==
    [stats : {"ok", "invalid", "unreachable"}, list_valid : BOOLEAN,
     detail : {PassedShape, InvalidShape}]

\* for attempt in attempts_list: fetch_attempt_detail stores the detail,
\* and the worker stores what it returned once more with test_id None; a
\* detail that fails validation is stored and ends the loop
RECURSIVE DetailLoop(_, _, _, _, _)
DetailLoop(acc, order, s, sh, i) ==
    IF i > Len(order) \/ acc.raised THEN acc
    ELSE LET a == order[i]
             payload == AttemptPayload(a, sh)
             stored == InsertRawAttempt(acc.rows, a, payload.student_id,
                                        payload.test_id, payload)
             again == InsertRawAttempt(stored, a, s, Null, payload)
             kept == InsertRawAttempt(acc.rows, a, payload.student_id, Null,
                                      payload)
         IN DetailLoop(IF payload.valid
                       THEN [acc EXCEPT !.rows = again]
                       ELSE [rows |-> IF IsUuid(payload.student_id)
                                      THEN kept ELSE acc.rows,
                             raised |-> TRUE],
                       order, s, sh, i + 1)

\* one iteration of the loop of fetch_from_testing: fetch_user_stats stores
\* the answer and the worker stores what it returned again; then
\* fetch_user_attempts and the details; an exception ends the iteration and
\* is logged
FetchStudent(acc, s, ans) ==
    LET payload == UserStatsPayload(s, ans.stats = "ok")
        stored == InsertRawUserStats(acc.stats, s, payload)
        again == InsertRawUserStats(stored, s, payload)
        ids == {a \in PipelineAttempts : AttemptOwner[a] = s}
        order == CHOOSE o \in [1..Cardinality(ids) -> ids] : Range(o) = ids
        listed == InsertItems(acc.attempts, order, s, PassedShape, 1)
        detailed == DetailLoop([rows |-> listed, raised |-> FALSE], order, s,
                               ans.detail, 1)
        skipped == [acc EXCEPT !.failed = @ \cup {s}]
    IN IF ans.stats = "unreachable" THEN skipped
       ELSE IF ans.stats = "invalid" THEN [skipped EXCEPT !.stats = stored]
       ELSE IF ~ans.list_valid
       THEN [skipped EXCEPT !.stats =
                InsertRawUserStats(again, s, AttemptsListPayload(s, FALSE))]
       ELSE [stats |-> again, attempts |-> detailed.rows,
             failed |-> IF detailed.raised THEN acc.failed \cup {s}
                        ELSE acc.failed]

RECURSIVE FetchLoop(_, _, _, _)
FetchLoop(acc, page, answers, i) ==
    IF i > Len(page) THEN acc
    ELSE FetchLoop(FetchStudent(acc, page[i], answers[page[i]]), page,
                   answers, i + 1)

\* fetch_from_testing with the try block around the loop instead of around
\* one iteration: the first student that fails ends the run, which raises
RunFetchFromTestingTryAroundLoop(stats, attempts, page_fails, answers) ==
    LET start == [stats |-> stats, attempts |-> attempts, failed |-> {}]
        failing == {i \in DOMAIN StudentPage :
                      FetchStudent(start, StudentPage[i],
                                   answers[StudentPage[i]]).failed # {}}
        first == CHOOSE i \in failing : \A j \in failing : i <= j
    IN IF page_fails THEN [start EXCEPT !.failed = Students] @@ [raised |-> TRUE]
       ELSE IF failing = {}
       THEN FetchLoop(start, StudentPage, answers, 1) @@ [raised |-> FALSE]
       ELSE FetchLoop(start, SubSeq(StudentPage, 1, first), answers, 1)
               @@ [raised |-> TRUE]

\* the whole of fetch_from_testing on the given raw tables; the read of the
\* student page is outside the try block
RunFetchFromTesting(stats, attempts, page_fails, answers) ==
    LET start == [stats |-> stats, attempts |-> attempts, failed |-> {}]
    IN IF page_fails THEN [start EXCEPT !.failed = Students] @@ [raised |-> TRUE]
       ELSE FetchLoop(start, StudentPage, answers, 1) @@ [raised |-> FALSE]

\* the whole of process_raws: process_raw_user_stats, then
\* process_raw_attempts; an exception of the first leaves the second undone
RunProcessRaws(us, raw, biz, agg, c, usFaults) ==
    LET batch == GetUnprocessedUserStats(us, BatchSize)
        first == UserStatsLoop([raw |-> us, processed |-> 0, failed |-> 0,
                                raised |-> FALSE], batch, usFaults, 1)
        raws == GetUnprocessedAttempts(raw, BatchSize)
        second == RunProcessRawAttempts(raw, biz, agg, c,
                      [i \in 1..Len(raws) |-> "none"],
                      [s \in Students |-> "none"])
    IN IF first.raised
       THEN [stats |-> first.raw, attempts |-> raw, business |-> biz,
             aggregated |-> agg, cache |-> c, raised |-> TRUE]
       ELSE [stats |-> first.raw, attempts |-> second.raw,
             business |-> second.business, aggregated |-> second.aggregated,
             cache |-> second.cache, raised |-> second.raised]

\* a run of fetch_from_testing started by caller: the scheduler calls it
\* through job_wrapper, which logs what it raises; run_worker_fetch turns
\* what it raises into HTTP 500
FetchFromTesting(caller) ==
    /\ Len(rawUserStats) + 3 * Len(StudentPage) <= MaxFetchedRows
    /\ \E page_fails \in BOOLEAN, answers \in [Students -> FetchAnswers] :
         LET done == RunFetchFromTesting(rawUserStats, rawAttempts,
                                         page_fails, answers)
             reported == done.raised /\ caller = "run_worker_fetch"
         IN /\ rawUserStats' = done.stats
            /\ rawAttempts' = done.attempts
            /\ last' = Observe(caller, Null, reported,
                          [page_fails |-> page_fails, answers |-> answers,
                           skipped |-> done.failed, failed |-> done.raised,
                           status |-> IF reported THEN 500 ELSE 200])
    /\ UNCHANGED <<business, aggregated, cache, cacheFull, certificates>>
    /\ UNCHANGED componentVars

\* a run of process_raws started by caller: job_wrapper or run_worker_process
ProcessRaws(caller) ==
    LET batch == GetUnprocessedUserStats(rawUserStats, BatchSize)
    IN /\ \E usFaults \in [1..Len(batch) -> {"none", "mark_both"}] :
            LET done == RunProcessRaws(rawUserStats, rawAttempts, business,
                                       aggregated, cache, usFaults)
                reported == done.raised /\ caller = "run_worker_process"
            IN /\ rawUserStats' = done.stats
               /\ rawAttempts' = done.attempts
               /\ business' = done.business
               /\ aggregated' = done.aggregated
               /\ cache' = done.cache
               /\ last' = Observe(caller, Null, reported,
                             [usFaults |-> usFaults, failed |-> done.raised,
                              status |-> IF reported THEN 500 ELSE 200])
       /\ UNCHANGED <<cacheFull, certificates>>
       /\ UNCHANGED componentVars

\* the scheduled runs
FetchTestingJob == FetchFromTesting("fetch_testing")
ProcessRawsJob == ProcessRaws("process_raws")

\* POST /worker/fetch and POST /worker/process
RunWorkerFetch == FetchFromTesting("run_worker_fetch")
RunWorkerProcess == ProcessRaws("run_worker_process")

\* StatsWorker.fetch_for_student: its first statement calls
\* testing_client.get_user_stats, which TestingClient does not define; the
\* AttributeError is logged and raised again before anything is stored
FetchForStudent(s) ==
    [stats |-> rawUserStats, attempts |-> rawAttempts, raised |-> TRUE,
     error |-> "AttributeError"]

\* POST /statistics/refresh of the student pages: fetch_for_student, then
\* process_raw_user_stats, process_raw_attempts and refresh_user_statistics,
\* all in one try block whose except clause logs; the answer is a redirect
\* on both paths.  fetch_for_student always raises, so the three calls
\* after it never run.
StatisticsRefresh(s) ==
    LET fetched == FetchForStudent(s)
    IN /\ fetched.raised
       /\ rawUserStats' = fetched.stats
       /\ rawAttempts' = fetched.attempts
       /\ last' = Observe("statistics_refresh", s, FALSE,
                          [completed |-> <<>>, failed |-> fetched.raised,
                           error |-> fetched.error, status |-> 303])
       /\ UNCHANGED <<business, aggregated, cache, cacheFull, certificates>>
       /\ UNCHANGED componentVars

\* the two jobs and the three on-demand handlers
NextTriggers ==
    \/ FetchTestingJob
    \/ ProcessRawsJob
    \/ RunWorkerFetch
    \/ RunWorkerProcess
    \/ \E s \in Students : StatisticsRefresh(s)

SpecTriggers == Init /\ [][NextTriggers]_vars

(* Recomputations of an aggregate that overlap: every await of a processing
   run and of a refresh is a step of its own *)

Recompute(p) == recomputes[p]

ProcessRuns == {"process_1", "process_2"}

\* process_raw_attempts up to its first await's answer: the batch is read
BeginProcessRun(p) ==
    LET raws == GetUnprocessedAttempts(rawAttempts, BatchSize)
    IN /\ p \in ProcessRuns
       /\ Recompute(p).pc = "idle"
       /\ raws # <<>>
       /\ recomputes' = [recomputes EXCEPT ![p].pc = "upsert", ![p].todo = raws]
       /\ UNCHANGED <<dataVars, contractManager, schemaLoader, scheduler,
                      scans, last>>

\* the try block of one record up to upsert_attempt
UpsertRecord(p) ==
    LET row == Head(Recompute(p).todo)
        ok == row.payload.valid /\ StudentExists(row.payload.student_id)
    IN /\ Recompute(p).pc = "upsert"
       /\ business' = IF ok THEN UpsertAttempt(business, row.payload)
                      ELSE business
       /\ recomputes' = [recomputes EXCEPT ![p].pc = "mark",
                                           ![p].upserted = ok]
       /\ UNCHANGED <<rawAttempts, rawUserStats, aggregated, cache, cacheFull,
                      certificates, contractManager, schemaLoader, scheduler,
                      scans, last>>

\* mark_attempt_processed of the record, in the try block or in the except
\* block; after the last record the second loop starts
MarkRecord(p) ==
    LET row == Head(Recompute(p).todo)
        rest == Tail(Recompute(p).todo)
        affected == IF Recompute(p).upserted
                    THEN Recompute(p).affected \cup {row.payload.student_id}
                    ELSE Recompute(p).affected
    IN /\ Recompute(p).pc = "mark"
       /\ rawAttempts' = MarkAttemptProcessed(rawAttempts, row.id, Null)
       /\ recomputes' =
             IF rest # <<>>
             THEN [recomputes EXCEPT ![p].pc = "upsert", ![p].todo = rest,
                                     ![p].affected = affected]
             ELSE IF affected # {}
             THEN [recomputes EXCEPT ![p].pc = "read", ![p].todo = rest,
                                     ![p].affected = affected]
             ELSE [recomputes EXCEPT ![p] = IdleRecompute]
       /\ UNCHANGED <<rawUserStats, business, aggregated, cache, cacheFull,
                      certificates, contractManager, schemaLoader, scheduler,
                      scans, last>>

\* refresh_user_statistics(s) is called
BeginRefresh(s) ==
    /\ Recompute("refresh").pc = "idle"
    /\ recomputes' = [recomputes EXCEPT !["refresh"].pc = "read",
                                        !["refresh"].affected = {s}]
    /\ UNCHANGED <<dataVars, contractManager, schemaLoader, scheduler, scans,
                   last>>

\* calculate_and_save_aggregated, first statement: STUDENT_STATS_CALCULATE
ReadCanonical(p) ==
    LET s == CHOOSE x \in Recompute(p).affected : TRUE
    IN /\ Recompute(p).pc = "read"
       /\ recomputes' = [recomputes EXCEPT
                            ![p].pc = "write", ![p].student = s,
                            ![p].stats = CalculateStats(business, s)]
       /\ UNCHANGED <<dataVars, contractManager, schemaLoader, scheduler,
                      scans, last>>

\* calculate_and_save_aggregated, second statement:
\* STUDENT_STATS_AGGREGATED_UPSERT with the values read before
WriteAggregate(p) ==
    /\ Recompute(p).pc = "write"
    /\ aggregated' = SaveAggregated(aggregated, Recompute(p).student,
                                    Recompute(p).stats)
    /\ recomputes' = [recomputes EXCEPT ![p].pc = "cache"]
    /\ UNCHANGED <<rawAttempts, rawUserStats, business, cache, cacheFull,
                   certificates, contractManager, schemaLoader, scheduler,
                   scans, last>>

\* save_to_redis of the processing run, save_full_data_to_redis of the
\* refresh; the processing run goes on to its next affected student
SaveCache(p) ==
    LET s == Recompute(p).student
        stats == Recompute(p).stats
        rest == Recompute(p).affected \ {s}
    IN /\ Recompute(p).pc = "cache"
       /\ IF p = "refresh"
          THEN /\ cacheFull' = RedisSet(cacheFull, s,
                                   FullData(stats, business, certificates, s))
               /\ UNCHANGED cache
          ELSE /\ cache' = SaveToRedis(cache, s, stats)
               /\ UNCHANGED cacheFull
       /\ recomputes' =
             IF rest # {}
             THEN [recomputes EXCEPT ![p].pc = "read", ![p].affected = rest]
             ELSE [recomputes EXCEPT ![p] = IdleRecompute]
       /\ last' = Observe(IF p = "refresh" THEN "refresh_user_statistics"
                          ELSE "process_raw_attempts", s, FALSE,
                          [statistics |-> stats])
       /\ UNCHANGED <<rawAttempts, rawUserStats, business, aggregated,
                      certificates, contractManager, schemaLoader, scheduler,
                      scans>>

\* two processing runs and a refresh on one event loop while attempts of
\* the student arrive
NextInterleaved ==
    \/ \E a \in PipelineAttempts, sh \in {PassedShape, FailedShape} :
          FetchAttemptDetail(a, sh)
    \/ \E p \in ProcessRuns : BeginProcessRun(p)
    \/ \E p \in ProcessRuns : UpsertRecord(p)
    \/ \E p \in ProcessRuns : MarkRecord(p)
    \/ \E s \in Students : BeginRefresh(s)
    \/ \E p \in RecomputeIds : ReadCanonical(p)
    \/ \E p \in RecomputeIds : WriteAggregate(p)
    \/ \E p \in RecomputeIds : SaveCache(p)

SpecInterleaved == Init /\ [][NextInterleaved]_vars

\* StatsService.get_user_statistics: the bundle cached under
\* user_full_data:{student_id} is returned when there is one; otherwise the
\* aggregate comes from StatsRepository.get_user_stats (Redis, then the
\* aggregated table, then a calculation), the bundle is assembled and cached
GetUserStatistics(s) ==
    LET tier == IF s \in DOMAIN cache THEN 1
                ELSE IF s \in DOMAIN aggregated THEN 2 ELSE 3
        stats == IF tier = 1 THEN JsonLoads(cache[s])
                 ELSE IF tier = 2 THEN aggregated[s]
                 ELSE CalculateStats(business, s)
        result == FullData(stats, business, certificates, s)
    IN /\ IF s \in DOMAIN cacheFull
          THEN /\ last' = Observe("get_user_statistics", s, FALSE,
                              [cached |-> TRUE,
                               data |-> JsonLoads(cacheFull[s]),
                               after |-> Preceding(s)])
               /\ UNCHANGED <<aggregated, cache, cacheFull>>
          ELSE /\ aggregated' = IF tier = 3
                                THEN SaveAggregated(aggregated, s, stats)
                                ELSE aggregated
               /\ cache' = IF tier = 1 THEN cache
                           ELSE SaveToRedis(cache, s, stats)
               /\ cacheFull' = RedisSet(cacheFull, s, result)
               /\ last' = Observe("get_user_statistics", s, FALSE,
                              [cached |-> FALSE, data |-> result,
                               after |-> Preceding(s)])
       /\ UNCHANGED <<rawAttempts, rawUserStats, business, certificates>>
       /\ UNCHANGED componentVars

\* the student pages read the bundle while the pipeline delivers attempts
NextProfile ==
    \/ \E a \in PipelineAttempts, sh \in PayloadShapes : FetchAttemptDetail(a, sh)
    \/ ProcessRawAttempts({"none"}, {"none"})
    \/ \E s \in Students : GetUserStatistics(s)
    \/ \E s \in Students : InvalidateCache(s)
    \/ \E s \in Students : ExpireKey(s)

SpecProfile == Init /\ [][NextProfile]_vars


\* what generate_certificate raises under the injected fault: a
\* CertificateGenerationError is passed on, anything else is wrapped in one
GenerationError(fault) ==
    IF fault = "none" THEN "none" ELSE "CertificateGenerationError"

\* CertificateService.generate_certificate for one attempt the eligibility
\* query returned, as both scans call it
GenerateCertificate(a, fault) ==
    LET start == [business |-> business, certificates |-> certificates,
                  issued |-> {}, generated |-> 0, failed |-> 0]
        done == GenerateForAttempt(start, a, fault)
    IN /\ a \in DOMAIN business
       /\ Eligible(business, a)
       /\ Cardinality(DOMAIN certificates) < MaxCertificates
       /\ business' = done.business
       /\ certificates' = done.certificates
       /\ last' = Observe("generate_certificate", a, fault # "none",
                          [fault |-> fault, error |-> GenerationError(fault),
                           certificate_id |-> done.business[a].certificate_id])
       /\ UNCHANGED <<rawAttempts, rawUserStats, aggregated, cache, cacheFull>>
       /\ UNCHANGED componentVars

\* certificates are issued while the pipeline delivers attempts
NextIssue ==
    \/ \E a \in CertAttempts, sh \in PayloadShapes : FetchAttemptDetail(a, sh)
    \/ ProcessRawAttempts({"none"}, {"none"})
    \/ \E a \in CertAttempts, fault \in CertFaults : GenerateCertificate(a, fault)
    \/ \E s \in Students : CheckAndGenerateCertificatesForStudent(s)

SpecIssue == Init /\ [][NextIssue]_vars


\* the process job keeps running while the fetch job delivers attempts;
\* storage is available: no failure is injected. The job is one coroutine
\* on the event loop, so the fetches interleave with it at its awaits
ProcessJobStep ==
    \/ BeginProcessRun("process_1")
    \/ UpsertRecord("process_1")
    \/ MarkRecord("process_1")
    \/ ReadCanonical("process_1")
    \/ WriteAggregate("process_1")
    \/ SaveCache("process_1")

\* what the testing service answers for an attempt: a1 fails validation
\* every time it is fetched, the other attempts are valid
DrainShape(a) == IF a = "a1" THEN InvalidShape ELSE PassedShape

NextDrain ==
    \/ \E a \in QueueAttempts : FetchAttemptDetail(a, DrainShape(a))
    \/ ProcessJobStep

\* the interval trigger of the process job keeps firing and each await of
\* the running job is answered
SpecDrain ==
    /\ Init
    /\ [][NextDrain]_vars
    /\ WF_vars(BeginProcessRun("process_1"))
    /\ WF_vars(UpsertRecord("process_1"))
    /\ WF_vars(MarkRecord("process_1"))
    /\ WF_vars(ReadCanonical("process_1"))
    /\ WF_vars(WriteAggregate("process_1"))
    /\ WF_vars(SaveCache("process_1"))


\* the recompute on its own, over the contents tests.test_attempt_b may have:
\* up to MaxArithRows rows, each of either student, of either test, with a
\* point and an outcome or with both columns NULL
ArithRowIds == {"r1", "r2", "r3", "r4", "r5"}
ArithIndex == [r \in ArithRowIds |->
                  IF r = "r1" THEN 1 ELSE IF r = "r2" THEN 2
                  ELSE IF r = "r3" THEN 3 ELSE IF r = "r4" THEN 4 ELSE 5]
ArithRows == {r \in ArithRowIds : ArithIndex[r] <= MaxArithRows}
ArithTests == {"t1", "t2"}
ArithOutcomes == {[point |-> 90, passed |-> "true"],
                  [point |-> 40, passed |-> "false"],
                  [point |-> 70, passed |-> "true"],
                  [point |-> NullInt, passed |-> Null]}

ArithRow(r, sid, tid, o) ==
    [student_id |-> sid, test_id |-> tid, date_of_attempt |-> ArithIndex[r],
     point |-> o.point, completed |-> TRUE, passed |-> o.passed,
     certificate_id |-> Null]

InitArith ==
    /\ \E present \in SUBSET ArithRows :
       \E sid \in [present -> Students], tid \in [present -> ArithTests],
          o \in [present -> ArithOutcomes] :
            business = [r \in present |-> ArithRow(r, sid[r], tid[r], o[r])]
    /\ rawAttempts = <<>>
    /\ rawUserStats = <<>>
    /\ aggregated = <<>>
    /\ cache = <<>>
    /\ cacheFull = <<>>
    /\ certificates = <<>>
    /\ contractManager = IdleManager
    /\ schemaLoader = IdleLoader
    /\ scheduler = IdleScheduler
    /\ scans = IdleScans
    /\ recomputes = IdleRecomputes
    /\ last = Observe("init", Null, FALSE, NoResult)

\* StatsRepository.calculate_and_save_aggregated
CalculateAndSaveAggregated(s) ==
    LET stats == CalculateStats(business, s)
    IN /\ aggregated' = SaveAggregated(aggregated, s, stats)
       /\ last' = Observe("calculate_and_save_aggregated", s, FALSE,
                          [stats |-> stats])
       /\ UNCHANGED <<rawAttempts, rawUserStats, business, cache, cacheFull,
                      certificates>>
       /\ UNCHANGED componentVars

NextArith == \E s \in Students : CalculateAndSaveAggregated(s)

SpecArith == InitArith /\ [][NextArith]_vars

----------------------------------------------------------------------------
(* Properties *)

RowsWithId(rows, ext) == {i \in DOMAIN rows : rows[i].id = ext}

\* C2: idempotent attempt ingestion.  After a fetch has upserted attempt a
\* there is exactly one raw row per external_attempt_id, the row of a holds
\* the payload of this call, and when a row of a existed before the call its
\* processing_attempts counter is the one it had before.
C2_IdempotentIngestion ==
    [][ last'.op = "fetch_attempt_detail" =>
          LET a == last'.arg
          IN /\ \A x \in AttemptIds : Cardinality(RowsWithId(rawAttempts', x)) <= 1
             /\ Cardinality(RowsWithId(rawAttempts', a)) = 1
             /\ RawOf(rawAttempts', a).payload = last'.ret.payload
             /\ HasRaw(rawAttempts, a) =>
                   /\ Len(rawAttempts') = Len(rawAttempts)
                   /\ RawOf(rawAttempts', a).processing_attempts
                        = RawOf(rawAttempts, a).processing_attempts ]_vars

\* a re-fetch replaced the payload of a row that the processor had retried:
\* the row's test_id column still is the NULL of a first, invalid answer
C2_Witness ==
    /\ last.op = "fetch_attempt_detail"
    /\ HasRaw(rawAttempts, last.arg)
    /\ LET row == RawOf(rawAttempts, last.arg)
       IN /\ row.processing_attempts > 0
          /\ row.test_id = Null
          /\ row.payload.valid
          /\ row.payload = last.ret.payload

\* the batch a process_raw_attempts step starts from, and the step taken
\* when no storage call fails
Batch == GetUnprocessedAttempts(rawAttempts, BatchSize)

NoRecordFaults == [i \in 1..Len(Batch) |-> "none"]
NoRecalcFaults == [s \in Students |-> "none"]

FaultFree ==
    RunProcessRawAttempts(rawAttempts, business, aggregated, cache,
                          NoRecordFaults, NoRecalcFaults)

FaultFreeStep ==
    /\ last'.op = "process_raw_attempts"
    /\ rawAttempts' = FaultFree.raw
    /\ business' = FaultFree.business
    /\ aggregated' = FaultFree.aggregated
    /\ cache' = FaultFree.cache

InvalidInBatch == {i \in DOMAIN Batch : ~Batch[i].payload.valid}

\* the same call on a Raw Store that never held the bad record
WithoutRecord(rawId) ==
    RunProcessRawAttempts(RemoveKey(rawAttempts, rawId), business, aggregated,
                          cache, NoRecordFaults, NoRecalcFaults)

\* C1: batch isolation.  When process_raw_attempts runs without storage
\* failures on a batch of N >= 2 records of existing students of which exactly
\* one fails validation, the N-1 valid records end processed without error
\* and with a row in tests.test_attempt_b, each exactly as if the bad record
\* had not been in the batch, and the bad record ends processed with an error.
C1_BatchIsolation ==
    [][ ( /\ FaultFreeStep
          /\ Len(Batch) >= 2
          /\ Cardinality(InvalidInBatch) = 1
          /\ \A i \in DOMAIN Batch : StudentExists(Batch[i].payload.student_id) )
        => \A i \in DOMAIN Batch :
              LET id == Batch[i].id
                  bad == Batch[CHOOSE j \in InvalidInBatch : TRUE].id
                  row == RawOf(rawAttempts', id)
              IN IF i \in InvalidInBatch
                 THEN row.processed /\ row.error_message # Null
                 ELSE /\ row.processed /\ row.error_message = Null
                      /\ id \in DOMAIN business'
                      /\ business'[id] = WithoutRecord(bad).business[id]
                      /\ row = RawOf(WithoutRecord(bad).raw, id) ]_vars

\* C6: no per-record failure escapes the batch loop.  Whatever storage call
\* fails for a record, process_raw_attempts returns normally and every
\* record of the batch has been dealt with.
C6_NoEscape ==
    [][ last'.op \in {"process_raw_attempts", "process_raw_user_stats"} =>
          /\ ~last'.raised
          /\ \A i \in DOMAIN Batch : RawOf(rawAttempts', Batch[i].id).processed ]_vars

\* C7: the outcome is recorded on the raw record.  After a run without
\* storage failures a record that failed (validation, unknown student) is
\* processed with error_message = the failure's message, a record that
\* succeeded is processed with no error message.
C7_ErrorRecorded ==
    [][ FaultFreeStep =>
          \A i \in DOMAIN Batch :
             LET row == RawOf(rawAttempts', Batch[i].id)
                 ok == /\ Batch[i].payload.valid
                       /\ StudentExists(Batch[i].payload.student_id)
             IN /\ row.processed
                /\ row.error_message =
                      IF ok THEN Null ELSE FailureMessage(Batch[i], "none") ]_vars

\* C4: cache-aside freshness.  A read that follows invalidate(student_id)
\* returns the aggregate recomputed from the student's current rows of
\* tests.test_attempt_b.
C4_FreshAfterInvalidate ==
    (last.op = "get_user_stats" /\ last.ret.after = "invalidate_cache")
        => last.ret.stats = CalculateStats(business, last.arg)

\* C8: refresh writes through both layers.  When refresh_user_statistics
\* returns, the durable row and the key user_stats:{student_id} both hold the
\* value recomputed from tests.test_attempt_b, and the read that follows
\* returns it.
C8_RefreshWritesThrough ==
    /\ last.op = "refresh_user_statistics" =>
          /\ last.ret.statistics = CalculateStats(business, last.arg)
          /\ last.arg \in DOMAIN aggregated
          /\ aggregated[last.arg] = last.ret.statistics
          /\ last.arg \in DOMAIN cache
          /\ JsonLoads(cache[last.arg]) = last.ret.statistics
    /\ (last.op = "get_user_stats" /\ last.ret.after = "refresh_user_statistics")
          => last.ret.stats = CalculateStats(business, last.arg)

\* C5: cache population.  After any read the key user_stats:{student_id}
\* holds the value returned, and a read that immediately follows a read that
\* missed the cache returns the same value from the cache (tier 1), touching
\* neither the aggregated table nor tests.test_attempt_b.
C5_CachePopulation ==
    [][ last'.op = "get_user_stats" =>
          LET s == last'.arg
          IN /\ s \in DOMAIN cache'
             /\ JsonLoads(cache'[s]) = last'.ret.stats
             /\ (last.op = "get_user_stats" /\ last.arg = s /\ last.ret.tier > 1)
                   => /\ last'.ret.tier = 1
                      /\ last'.ret.stats = last.ret.stats
                      /\ UNCHANGED <<cache, aggregated, business>> ]_vars

C5_Witness ==
    /\ last.op = "get_user_stats"
    /\ last.ret.tier = 1
    /\ last.ret.after = "get_user_stats miss"
    /\ last.ret.stats.total_attempts > 0

\* what invalidate_cache may change: the key of its student and nothing of
\* the tables or of the other students' keys
InvalidateFrame ==
    last'.op = "invalidate_cache" =>
        LET s == last'.arg
        IN /\ DOMAIN cache' = DOMAIN cache \ {s}
           /\ \A t \in DOMAIN cache' : cache'[t] = cache[t]
           /\ \A t \in Students \ {s} :
                 /\ t \in DOMAIN cacheFull' <=> t \in DOMAIN cacheFull
                 /\ t \in DOMAIN cacheFull => cacheFull'[t] = cacheFull[t]
           /\ UNCHANGED <<aggregated, business, rawAttempts, rawUserStats,
                          certificates>>

AttemptsOf(s) == {a \in DOMAIN business : business[a].student_id = s}

Scored(s) == {a \in AttemptsOf(s) : business[a].point # NullInt}

IsExample(s) ==
    /\ Cardinality(AttemptsOf(s)) = 3
    /\ \E a, b, c \in AttemptsOf(s) :
          /\ business[a].point = 90 /\ business[a].passed = "true"
          /\ business[b].point = 40 /\ business[b].passed = "false"
          /\ business[c].point = 70 /\ business[c].passed = "true"

\* C10: aggregate arithmetic.  The recompute of a student yields the number
\* of the student's rows, of those with passed true, of those with passed
\* false, the number of distinct tests, the greatest date and the mean of
\* point (to 1/AvgScale); [pass(90), fail(40), pass(70)] gives 3, 2, 1 and
\* 66.67 within 0.01; without rows every count is 0 and avg_score is 0, and
\* the durable row holds the same values.
C10_AggregateArithmetic ==
    last.op = "calculate_and_save_aggregated" =>
        LET s == last.arg
            st == last.ret.stats
            rows == AttemptsOf(s)
            n == Cardinality(Scored(s))
        IN /\ st.total_attempts = Cardinality(rows)
           /\ st.passed_attempts =
                 Cardinality({a \in rows : business[a].passed = "true"})
           /\ st.failed_attempts =
                 Cardinality({a \in rows : business[a].passed = "false"})
           /\ st.total_tests_taken =
                 Cardinality({business[a].test_id : a \in rows})
           /\ rows # {} =>
                 /\ \E a \in rows : business[a].date_of_attempt = st.last_attempt_at
                 /\ \A a \in rows : business[a].date_of_attempt <= st.last_attempt_at
           /\ n > 0 =>
                 /\ st.avg_score * n <= SumPoint(business, rows) * AvgScale
                 /\ SumPoint(business, rows) * AvgScale < (st.avg_score + 1) * n
           /\ n = 0 => st.avg_score = 0
           /\ IsExample(s) =>
                 /\ st.total_attempts = 3 /\ st.passed_attempts = 2
                 /\ st.failed_attempts = 1
                 /\ st.avg_score * 100 - 6667 * AvgScale <= AvgScale
                 /\ 6667 * AvgScale - st.avg_score * 100 <= AvgScale
           /\ rows = {} =>
                 /\ st.total_attempts = 0 /\ st.passed_attempts = 0
                 /\ st.failed_attempts = 0 /\ st.total_tests_taken = 0
                 /\ st.avg_score = 0
           /\ st.avg_score # NullInt
           /\ s \in DOMAIN aggregated /\ aggregated[s] = st

\* the recompute has run for a student whose rows are the example, taken on
\* two tests
C10_Witness ==
    /\ last.op = "calculate_and_save_aggregated"
    /\ IsExample(last.arg)
    /\ last.ret.stats.total_attempts = 3
    /\ last.ret.stats.total_tests_taken = 2

\* the keys of the compiled-validator cache, oldest insertion first
CachedKeys(m) == m.validators_cache

\* C11: validator cache bound and eviction.  With caching enabled and cache
\* size K the cache never holds more than K entries and no key twice; a
\* validate call that compiles a new validator appends its key and, when
\* that exceeds K, drops the key inserted earliest; a cache hit leaves the
\* cache and its order as they are; a failed load or compile inserts nothing.
C11_ValidatorCacheEviction ==
    [][ /\ Len(CachedKeys(contractManager')) <= contractManager'.cache_size
        /\ \A i, j \in DOMAIN CachedKeys(contractManager') :
              CachedKeys(contractManager')[i] = CachedKeys(contractManager')[j]
                 => i = j
        /\ (last'.op = "validate" /\ contractManager.enable_caching) =>
              LET old == CachedKeys(contractManager)
                  new == CachedKeys(contractManager')
                  key == last'.ret.key
                  inserts == /\ last'.ret.loaded /\ last'.ret.schema.compiles
                             /\ \A i \in DOMAIN old : old[i] # key
              IN IF ~inserts THEN new = old
                 ELSE IF Len(old) < contractManager.cache_size
                 THEN new = old \o <<key>>
                 ELSE /\ Len(new) = contractManager.cache_size
                      /\ \A i \in DOMAIN old : i > 1 => new[i - 1] = old[i]
                      /\ new[Len(new)] = key
                      /\ \A i \in DOMAIN new : new[i] # old[1] ]_vars

\* a full cache took a new key: the first-inserted key is gone, the later
\* ones remain in their order
C11_Witness ==
    /\ last.op = "validate"
    /\ contractManager.enable_caching
    /\ ~last.ret.hit
    /\ Len(last.ret.before) = contractManager.cache_size
    /\ Len(CachedKeys(contractManager)) = contractManager.cache_size
    /\ CachedKeys(contractManager) = Tail(last.ret.before) \o <<last.ret.key>>

\* name n comes after every other name of the set in dictionary order: at
\* the first position where they differ the other name has ended or holds a
\* smaller character
IsGreatestName(n, names) ==
    \A m \in names \ {n} :
        \E k \in 1..Len(n) :
            /\ \A i \in 1..(k - 1) : i <= Len(m) /\ m[i] = n[i]
            /\ (k > Len(m) \/ m[k] < n[k])

StoredUserStats(payload) ==
    /\ Len(rawUserStats') = Len(rawUserStats) + 1
    /\ rawUserStats'[Len(rawUserStats')].payload = payload
    /\ ~rawUserStats'[Len(rawUserStats')].processed

\* C13: a validation failure in the Source Client does not drop data.  For
\* each of the three fetch operations: when the response fails validation
\* its payload is in the Raw Store after the call and the error raised is the
\* validation error; when it passes, the payload is in the Raw Store and the
\* call returns normally.
C13_FetchKeepsPayload ==
    [][ /\ last'.op = "fetch_user_stats" =>
              /\ StoredUserStats(last'.ret.payload)
              /\ last'.raised = ~last'.ret.payload.valid
              /\ last'.raised => last'.ret.error = "ContractValidationError"
        /\ last'.op = "fetch_user_attempts" =>
              /\ last'.raised = ~last'.ret.payload.valid
              /\ last'.raised =>
                    /\ StoredUserStats(last'.ret.payload)
                    /\ last'.ret.error = "ContractValidationError"
              /\ ~last'.raised =>
                    \A a \in last'.ret.items :
                       /\ HasRaw(rawAttempts', a)
                       /\ RawOf(rawAttempts', a).payload
                             = AttemptPayload(a, last'.ret.shape)
        /\ last'.op = "fetch_attempt_detail" =>
              /\ HasRaw(rawAttempts', last'.arg)
              /\ RawOf(rawAttempts', last'.arg).payload = last'.ret.payload
              /\ last'.raised = ~last'.ret.payload.valid
              /\ last'.raised => last'.ret.error = "ContractValidationError"
      ]_vars

\* C14: scheduler error boundary.  No run of a job lets an exception of its
\* body through to the scheduler; a run, failing or not, leaves the set of
\* scheduled jobs, the running scheduler and the other two jobs as they
\* were; and while the scheduler runs, a job whose run failed runs again.
C14_SchedulerErrorBoundary ==
    /\ [][ last'.op \in Jobs =>
             /\ ~last'.ret.propagated
             /\ ~last'.raised
             /\ scheduler'.jobs = scheduler.jobs
             /\ scheduler'.running = scheduler.running
             /\ \A k \in Jobs \ {last'.op} :
                   /\ scheduler'.runs[k] = scheduler.runs[k]
                   /\ scheduler'.outcome[k] = scheduler.outcome[k] ]_vars
    /\ \A j \in Jobs : \A b \in {0, 1} :
          (scheduler.running /\ scheduler.outcome[j] = "failed"
             /\ scheduler.runs[j] = b)
          ~> (scheduler.runs[j] # b \/ ~scheduler.running)

\* process_raws raised, was caught, and the job had failed the run before
\* as well, while the other two jobs had failing runs of their own
C14_Witness ==
    /\ last.op = "process_raws"
    /\ last.ret.body = "raises"
    /\ last.ret.previous = "failed"
    /\ scheduler.running
    /\ scheduler.jobs = Jobs
    /\ scheduler.outcome["fetch_testing"] = "failed"
    /\ scheduler.outcome["generate_certificates"] = "failed"

\* the processing_attempts counter of the raw row of attempt a
CounterOf(rows, a) == RawOf(rows, a).processing_attempts

C16_UpsertKeepsProcessed ==
    [][ (/\ last'.op = "fetch_attempt_detail"
         /\ HasRaw(rawAttempts, last'.arg)
         /\ HasRaw(rawAttempts', last'.arg)
         /\ RawOf(rawAttempts, last'.arg).processed)
        => /\ RawOf(rawAttempts', last'.arg).payload = last'.ret.payload
           /\ RawOf(rawAttempts', last'.arg).processed ]_vars

\* C17: a failed on-demand refresh does not corrupt the durable aggregate.
\* Whatever call of the refresh raises, the aggregated table is afterwards
\* either the table with the student's completely recomputed row or the
\* table as it was before the call, and the caller gets an error (HTTP 500)
\* and no data.
C17_FailedRefreshKeepsAggregate ==
    [][ last'.op = "refresh_student_stats" =>
          LET s == last'.arg
              fresh == CalculateStats(business, s)
          IN /\ last'.ret.fault # "none" =>
                   /\ last'.raised
                   /\ last'.ret.status_code = 500
                   /\ last'.ret.data = NoResult
                   /\ \/ aggregated' = aggregated
                      \/ aggregated' = SaveAggregated(aggregated, s, fresh)
             /\ \A o \in DOMAIN aggregated \ {s} :
                   o \in DOMAIN aggregated' /\ aggregated'[o] = aggregated[o] ]_vars

\* a refresh failed in its upsert and the student's prior row, which is not
\* the row a recomputation gives now, is still there
C17_Witness ==
    /\ last.op = "refresh_student_stats"
    /\ last.raised
    /\ last.ret.fault = "upsert"
    /\ last.arg \in DOMAIN aggregated
    /\ aggregated[last.arg] # CalculateStats(business, last.arg)
    /\ aggregated[last.arg].total_attempts > 0

\* C18: duplicate certificate generation is resolved idempotently.  When two
\* scans are running that both saw the same passing attempt without a
\* certificate, at most one of them creates a certificate record for it (the
\* attempt's single certificate_id then refers to that record), and no two
\* certificate records have the same certificate_number.
C18_ConcurrentScansIdempotent ==
    /\ \A p, q \in ScanIds :
          (p # q /\ scans[p].pc # "idle" /\ scans[q].pc # "idle") =>
             \A a \in scans[p].seen \cap scans[q].seen :
                ~ /\ \E x \in scans[p].made : x.attempt = a
                  /\ \E y \in scans[q].made : y.attempt = a
    /\ \A c, d \in DOMAIN certificates :
          c # d => certificates[c].certificate_number
                      # certificates[d].certificate_number

\* number of times x occurs in the call sequence
TimesCalled(calls, x) == Cardinality({i \in DOMAIN calls : calls[i] = x})

\* C19: recomputation after the batch loop.  In a run of process_raw_attempts
\* no student is recomputed or re-cached more than once; a student none of
\* whose records was upserted in the batch is not recomputed; and a student
\* with at least one upserted record, whose recomputation did not itself
\* raise, is recomputed once and re-cached once.
C19_RecomputeOncePerStudent ==
    [][ last'.op = "process_raw_attempts" =>
          LET calls == last'.ret
          IN \A s \in Students \cup {UnknownStudent} :
               /\ TimesCalled(calls.recalculated, s) <= 1
               /\ TimesCalled(calls.cached, s) <= 1
               /\ s \notin calls.upserted =>
                     /\ TimesCalled(calls.recalculated, s) = 0
                     /\ TimesCalled(calls.cached, s) = 0
               /\ (s \in calls.upserted /\ s \notin calls.recalc_raised) =>
                     /\ TimesCalled(calls.recalculated, s) = 1
                     /\ TimesCalled(calls.cached, s) = 1 ]_vars

\* the place of the row with this id in the order of received_at
ReceivedAt(rows, id) == CHOOSE i \in DOMAIN rows : rows[i].id = id

\* res is the answer the claim describes for table rows and this limit
IsOldestUnprocessed(res, rows, limit) ==
    LET pending == {i \in DOMAIN rows : ~rows[i].processed}
    IN /\ Len(res) <= limit
       /\ Len(res) = (IF Cardinality(pending) < limit
                      THEN Cardinality(pending) ELSE limit)
       /\ \A i \in DOMAIN res :
             /\ ~res[i].processed
             /\ \E k \in pending : rows[k] = res[i]
       /\ \A i, j \in DOMAIN res :
             i < j => ReceivedAt(rows, res[i].id) < ReceivedAt(rows, res[j].id)
       /\ \A k \in pending :
             (\A i \in DOMAIN res : res[i].id # rows[k].id) =>
                \A i \in DOMAIN res : ReceivedAt(rows, res[i].id) < k

NamesUnknownStudent(row) ==
    row.payload.valid /\ ~StudentExists(row.payload.student_id)

\* C21: a raw attempt of a student that does not exist is failed, not
\* ingested.  After process_raw_attempts such a record of the batch is
\* processed and carries an error message, the business table has no new or
\* changed row for it, its student was neither upserted for nor recomputed,
\* and every other record of the batch has been processed as well.
C21_UnknownStudentFailed ==
    [][ last'.op = "process_raw_attempts" =>
          \A i \in DOMAIN Batch :
             NamesUnknownStudent(Batch[i]) =>
                LET id == Batch[i].id
                    sid == Batch[i].payload.student_id
                IN /\ RawOf(rawAttempts', id).processed
                   /\ RawOf(rawAttempts', id).error_message # Null
                   /\ (id \in DOMAIN business') = (id \in DOMAIN business)
                   /\ id \in DOMAIN business => business'[id] = business[id]
                   /\ sid \notin last'.ret.upserted
                   /\ TimesCalled(last'.ret.recalculated, sid) = 0
                   /\ sid \notin DOMAIN aggregated'
                   /\ \A j \in DOMAIN Batch :
                         RawOf(rawAttempts', Batch[j].id).processed ]_vars

\* the attempts a scan called as op for student s has to look at: passed,
\* completed, without certificate, of the student when the scan is scoped
EligibleFor(biz, op, s) ==
    {a \in DOMAIN biz :
        /\ Eligible(biz, a)
        /\ op = "check_and_generate_certificates_for_student" =>
              biz[a].student_id = s}

\* C22: a certificate scan goes on after a failed issuance and counts
\* exactly.  A scan, global or of one student, returns normally; generated is
\* the number of attempts that got a certificate in the scan, failed the
\* number of eligible attempts that did not, and the two add up to the number
\* of eligible attempts.
C22_ScanCountersExact ==
    [][ IsScan(last'.op) =>
          LET eligible == EligibleFor(business, last'.op, last'.arg)
              issued == {a \in eligible : business'[a].certificate_id # Null}
          IN /\ ~last'.raised
             /\ last'.ret.generated = Cardinality(issued)
             /\ last'.ret.failed = Cardinality(eligible) - Cardinality(issued)
             /\ last'.ret.generated + last'.ret.failed = Cardinality(eligible)
      ]_vars

\* the batch a process_raw_user_stats step starts from
UserStatsBatch == GetUnprocessedUserStats(rawUserStats, BatchSize)

\* C23: process_raw_user_stats only validates and marks.  A run leaves the
\* business table, the aggregates, both cache key families, the certificates
\* and every raw attempt as they were, keeps the rows of raw_user_stats and
\* their payloads, and changes no row outside its batch; when no storage
\* call fails every record of the batch, valid or not, ends processed.
C23_UserStatsOnlyMarks ==
    [][ last'.op = "process_raw_user_stats" =>
          /\ business' = business
          /\ aggregated' = aggregated
          /\ cache' = cache
          /\ cacheFull' = cacheFull
          /\ certificates' = certificates
          /\ rawAttempts' = rawAttempts
          /\ Len(rawUserStats') = Len(rawUserStats)
          /\ \A i \in DOMAIN rawUserStats :
                /\ rawUserStats'[i].id = rawUserStats[i].id
                /\ rawUserStats'[i].payload = rawUserStats[i].payload
                /\ rawUserStats'[i].student_id = rawUserStats[i].student_id
                /\ (\A k \in DOMAIN UserStatsBatch :
                       UserStatsBatch[k].id # rawUserStats[i].id)
                   => rawUserStats'[i] = rawUserStats[i]
          /\ ~last'.ret.storage_failed =>
                /\ ~last'.raised
                /\ \A k \in DOMAIN UserStatsBatch :
                      \E i \in DOMAIN rawUserStats' :
                         /\ rawUserStats'[i].id = UserStatsBatch[k].id
                         /\ rawUserStats'[i].processed
                /\ last'.ret.processed + last'.ret.failed = Len(UserStatsBatch)
      ]_vars

\* a batch of one valid and one invalid snapshot was processed while the
\* business table, the aggregates and the cache hold data and a raw attempt
\* is waiting
C23_Witness ==
    /\ last.op = "process_raw_user_stats"
    /\ ~last.ret.storage_failed
    /\ last.ret.processed = 1
    /\ last.ret.failed = 1
    /\ \A i \in DOMAIN rawUserStats : rawUserStats[i].processed
    /\ DOMAIN business # {}
    /\ DOMAIN aggregated # {}
    /\ DOMAIN cache # {}
    /\ \E i \in DOMAIN rawAttempts : ~rawAttempts[i].processed

\* C24: validate has exactly two outcomes.  A validate call either returns
\* (the data conforms to a schema that was found, parsed, has a type and
\* compiled) or raises ContractValidationError: a missing contract directory
\* or version file, a malformed or type-less schema, a schema that does not
\* compile and non-conforming data all reach the caller as
\* ContractValidationError.
C24_ValidateTwoOutcomes ==
    last.op = "validate" =>
        LET version == last.ret.key[2]
            path == FindSchemaFile(schemaLoader.files, last.arg, version)
            onDisk == schemaLoader.files[last.arg][path.name]
            sound == /\ path.found
                     /\ onDisk.parses /\ onDisk.has_type /\ onDisk.compiles
        IN /\ last.ret.error \in {"none", "ContractValidationError"}
           /\ last.raised = (last.ret.error = "ContractValidationError")
           /\ (sound /\ last.ret.conforms) => ~last.raised
           /\ ~sound => last.raised
           /\ ~last.ret.conforms => last.raised

\* a validate call for a contract without directory failed inside with
\* FileNotFoundError and the caller got ContractValidationError
C24_Witness ==
    /\ last.op = "validate"
    /\ last.arg \notin DOMAIN schemaLoader.files
    /\ last.ret.inner = "FileNotFoundError"
    /\ last.raised
    /\ last.ret.error = "ContractValidationError"
    /\ last.ret.conforms

\* key is one of the keys of the compiled-validator cache
IsCached(m, key) == \E i \in DOMAIN CachedKeys(m) : CachedKeys(m)[i] = key

\* C26: compile-once caching.  With caching enabled a validate call whose
\* key is not cached compiles the loaded schema and caches the validator
\* under contract:version; a call whose key is cached uses the cached
\* validator and compiles nothing; a cached key leaves the cache only by
\* eviction in a full cache or by clear_cache.  With caching disabled every
\* validate call that loads a schema compiles and the cache stays empty.
C26_CompileOnce ==
    [][ /\ last'.op = "validate" =>
             LET key == last'.ret.key
                 cached == contractManager.enable_caching
                              /\ IsCached(contractManager, key)
             IN /\ key = CacheKey(last'.arg, key[2])
                /\ last'.ret.hit = cached
                /\ last'.ret.compile_called = (last'.ret.loaded /\ ~cached)
                /\ cached =>
                      /\ last'.ret.used = contractManager.compiled_from[key]
                      /\ contractManager' = contractManager
                /\ (contractManager.enable_caching /\ ~cached
                      /\ last'.ret.loaded /\ last'.ret.schema.compiles) =>
                      /\ IsCached(contractManager', key)
                      /\ contractManager'.compiled_from[key] = last'.ret.schema
                      /\ last'.ret.used = last'.ret.schema
        /\ \A c \in ValidateContracts, v \in VersionRequests :
              (IsCached(contractManager, CacheKey(c, v))
                 /\ ~IsCached(contractManager', CacheKey(c, v))) =>
                 \/ last'.op = "clear_cache"
                 \/ /\ last'.op = "validate"
                    /\ last'.ret.compile_called
                    /\ Len(CachedKeys(contractManager)) = contractManager.cache_size
                    /\ CachedKeys(contractManager)[1] = CacheKey(c, v)
        /\ ~contractManager.enable_caching =>
              /\ CachedKeys(contractManager') = <<>>
              /\ ~contractManager'.enable_caching
      ]_vars

\* a second validate for a pair found the validator of the first in the
\* cache and compiled nothing
C26_Witness ==
    /\ last.op = "validate"
    /\ contractManager.enable_caching
    /\ last.ret.hit
    /\ ~last.ret.compile_called
    /\ ~last.raised
    /\ last.ret.used = contractManager.compiled_from[last.ret.key]
    /\ Len(CachedKeys(contractManager)) = contractManager.cache_size

\* C30: clear_cache makes schema changes visible.  A validate call that
\* directly follows ContractManager.clear_cache and finds its schema file
\* validates against the document that file holds on disk at that time.
C30_ClearCacheShowsChanges ==
    [][ (last.op = "clear_cache" /\ last'.op = "validate") =>
          LET version == last'.ret.key[2]
              path == FindSchemaFile(schemaLoader.files, last'.arg, version)
          IN path.found =>
                last'.ret.used = schemaLoader.files[last'.arg][path.name] ]_vars

----------------------------------------------------------------------------
(* On-demand triggers *)

\* the operations of POST /statistics/refresh, in the order of the handler
RefreshOperations ==
    <<"fetch_for_student", "process_raw_user_stats", "process_raw_attempts",
      "refresh_user_statistics">>

\* C25: an on-demand trigger leaves the raw tables, the canonical table, the
\* aggregates and the cache as one scheduled run of the corresponding job
\* leaves them from the same state under the same answers and faults, the
\* refresh performs its operations in order, and a failure of a trigger is
\* reported to the caller
C25_TriggersReuseJobs ==
    [][/\ last'.op = "run_worker_fetch" =>
            LET job == RunFetchFromTesting(rawUserStats, rawAttempts,
                           last'.ret.page_fails, last'.ret.answers)
            IN /\ rawUserStats' = job.stats
               /\ rawAttempts' = job.attempts
               /\ UNCHANGED <<business, aggregated, cache>>
               /\ last'.raised = job.raised
       /\ last'.op = "run_worker_process" =>
            LET job == RunProcessRaws(rawUserStats, rawAttempts, business,
                           aggregated, cache, last'.ret.usFaults)
            IN /\ rawUserStats' = job.stats
               /\ rawAttempts' = job.attempts
               /\ business' = job.business
               /\ aggregated' = job.aggregated
               /\ cache' = job.cache
               /\ last'.raised = job.raised
       /\ last'.op = "statistics_refresh" =>
            /\ last'.ret.failed => last'.raised
            /\ ~last'.ret.failed => last'.ret.completed = RefreshOperations
      ]_vars

\* the rows of integration.raw_user_stats a step has added
AddedUserStats(before, after) == SubSeq(after, Len(before) + 1, Len(after))

\* the rows that were there before the step are there unchanged
KeepsUserStats(before, after) ==
    /\ Len(after) >= Len(before)
    /\ SubSeq(after, 1, Len(before)) = before

\* C27: a run of the fetch job, scheduled or on demand, adds for every
\* student whose aggregates it fetched exactly one raw_user_stats row
\* holding them, unprocessed, and leaves the rows it found unchanged; only
\* the Stats Processor changes a row that is already there
C27_FetchInsertsOneRow ==
    [][/\ last'.op \in {"fetch_testing", "run_worker_fetch"} =>
            LET added == AddedUserStats(rawUserStats, rawUserStats')
            IN /\ KeepsUserStats(rawUserStats, rawUserStats')
               /\ \A i \in DOMAIN added : ~added[i].processed
               /\ \A s \in Students :
                    (~last'.ret.page_fails
                        /\ last'.ret.answers[s].stats # "unreachable") =>
                    Cardinality({i \in DOMAIN added :
                                    /\ added[i].student_id = s
                                    /\ added[i].payload.kind = "user_stats"}) = 1
       /\ last'.op \notin {"process_raws", "run_worker_process"} =>
            KeepsUserStats(rawUserStats, rawUserStats')
      ]_vars

----------------------------------------------------------------------------
(* One certificate per attempt *)

\* C28: once a row of tests.test_attempt_b carries a certificate reference,
\* no fetch, processing run or scan clears or replaces it, and the row is
\* never again among the attempts the eligibility query returns
C28_CertificateReferenceKept ==
    [][\A a \in DOMAIN business :
          business[a].certificate_id # Null =>
              /\ a \in DOMAIN business'
              /\ business'[a].certificate_id = business[a].certificate_id
              /\ ~Eligible(business', a)
      ]_vars

----------------------------------------------------------------------------
(* Overlapping recomputations *)

\* no processing run and no refresh is in flight
Quiescent == \A p \in RecomputeIds : Recompute(p).pc = "idle"

\* C29: once every processing run and refresh in flight has completed, the
\* row of stats.student_stats_aggregated of every student equals a recompute
\* from the rows tests.test_attempt_b holds then
C29_AggregatesConverge ==
    Quiescent =>
        \A s \in DOMAIN aggregated : aggregated[s] = CalculateStats(business, s)

----------------------------------------------------------------------------
(* The full-profile bundle *)

\* the step is a get_user_statistics(s) that comes right after a processing
\* run that recomputed the aggregate of s or right after invalidate_cache(s)
ReadsAfterChange(s) ==
    /\ last'.op = "get_user_statistics"
    /\ last'.arg = s
    /\ \/ last.op = "invalidate_cache" /\ last.arg = s
       \/ /\ last.op = "process_raw_attempts"
          /\ \E i \in DOMAIN last.ret.recalculated :
                last.ret.recalculated[i] = s

\* C31: the bundle returned by the first get_user_statistics(s) after a
\* processing run recomputed the aggregate of s, or after
\* invalidate_cache(s), was not taken from user_full_data:{s} and its
\* statistics are the row stats.student_stats_aggregated holds for s
C31_BundleFollowsAggregate ==
    [][\A s \in Students :
          ReadsAfterChange(s) =>
              /\ ~last'.ret.cached
              /\ s \in DOMAIN aggregated'
              /\ last'.ret.data.statistics = aggregated'[s]
      ]_vars

----------------------------------------------------------------------------
(* The counters of process_raw_attempts *)

\* C32: a run of process_raw_attempts that returns hands its caller the
\* dictionary of its counters, in which processed and failed add up to the
\* number of records of the batch
C32_ReturnsCounters ==
    [][(last'.op = "process_raw_attempts" /\ ~last'.raised) =>
          /\ last'.ret.returned # Null
          /\ last'.ret.returned = last'.ret.counters
          /\ last'.ret.counters.processed + last'.ret.counters.failed
                = Len(GetUnprocessedAttempts(rawAttempts, BatchSize))
      ]_vars

----------------------------------------------------------------------------
(* Overlapping processing runs *)

\* the row of tests.test_attempt_b for the raw record carries its payload
Applied(row) ==
    /\ row.id \in DOMAIN business
    /\ business[row.id].student_id = row.payload.student_id
    /\ business[row.id].point = row.payload.point
    /\ business[row.id].passed = row.payload.passed
    /\ business[row.id].completed = row.payload.completed

\* C33: once the processing runs in flight have completed, every raw attempt
\* that is marked processed and whose payload is valid for a known student
\* has its row in tests.test_attempt_b with the fields of that payload: no
\* record is marked processed without having been applied
C33_OverlappingRunsSafe ==
    Quiescent =>
        \A i \in DOMAIN rawAttempts :
            LET row == rawAttempts[i]
            IN (row.processed /\ row.payload.valid
                    /\ StudentExists(row.payload.student_id)) => Applied(row)

----------------------------------------------------------------------------
(* Certificate issuance and its rollback *)

----------------------------------------------------------------------------
(* The backlog drains *)

\* the raw attempt a is in integration.raw_attempts and waits to be processed
Waiting(a) == HasRaw(rawAttempts, a) /\ ~RawOf(rawAttempts, a).processed

\* the raw attempt a is marked processed
Drained(a) == HasRaw(rawAttempts, a) /\ RawOf(rawAttempts, a).processed

\* C35: while the process job keeps running and storage is available, every
\* raw attempt that waits to be processed is eventually marked processed,
\* valid or not
C35_BacklogDrains ==
    \A a \in QueueAttempts : Waiting(a) ~> Drained(a)

----------------------------------------------------------------------------
(* The fetch job: one student's failure stays with that student *)

\* the testing service answers everything the job asks about student s
\* with a valid payload
Served(s, ans) ==
    /\ ans.stats = "ok"
    /\ ans.list_valid
    /\ \A a \in PipelineAttempts :
          AttemptOwner[a] = s => AttemptPayload(a, ans.detail).valid

\* C36: when the page of students is read, a run of the fetch job completes
\* without raising whatever fails for single students; the rows it found in
\* integration.raw_user_stats and the raw attempts it found are still there,
\* and every student of the page that the testing service answered validly
\* has their aggregates and the detail of each of their attempts stored,
\* unprocessed, whether the students before or after them failed
C36_FetchIsolatesStudents ==
    [][(last'.op \in {"fetch_testing", "run_worker_fetch"}
           /\ ~last'.ret.page_fails) =>
          LET added == AddedUserStats(rawUserStats, rawUserStats')
              answers == last'.ret.answers
          IN /\ ~last'.raised
             /\ ~last'.ret.failed
             /\ last'.ret.status = 200
             /\ KeepsUserStats(rawUserStats, rawUserStats')
             /\ \A a \in PipelineAttempts :
                   HasRaw(rawAttempts, a) => HasRaw(rawAttempts', a)
             /\ \A s \in Range(StudentPage) :
                   Served(s, answers[s]) =>
                      /\ \E i \in DOMAIN added :
                            /\ added[i].student_id = s
                            /\ added[i].payload = UserStatsPayload(s, TRUE)
                            /\ ~added[i].processed
                      /\ \A a \in PipelineAttempts :
                            AttemptOwner[a] = s =>
                               /\ HasRaw(rawAttempts', a)
                               /\ RawOf(rawAttempts', a).payload =
                                     AttemptPayload(a, answers[s].detail)
                               /\ ~RawOf(rawAttempts', a).processed
      ]_vars

\* a scheduled run in which the testing service was unreachable for the
\* first student of the page and the second student's aggregates were
\* stored all the same; nothing else has been stored
C36_Witness ==
    /\ last.op = "fetch_testing"
    /\ ~last.raised
    /\ ~last.ret.page_fails
    /\ last.ret.answers["s1"].stats = "unreachable"
    /\ Served("s2", last.ret.answers["s2"])
    /\ "s1" \in last.ret.skipped
    /\ rawUserStats # <<>>
    /\ \A i \in DOMAIN rawUserStats : rawUserStats[i].student_id = "s2"
    /\ rawAttempts = <<>>

====
